---- MODULE Spec2Model ----
(***************************************************************************)
(* EDSParser: the EDS data engine (src/src/cpp/lib/formats/eds.cpp) and    *)
(* the l-EDS convergence driver                                            *)
(* (src/src/cpp/lib/transforms/eds_transforms.cpp).                        *)
(*                                                                         *)
(* A string is a sequence of one-character strings, a text (the content of *)
(* a stream) likewise.  C++ indices are 0-based; the sequences below are   *)
(* 1-based, so the element the code reads as v[i] is At(v, i).             *)
(***************************************************************************)
EXTENDS Integers, Sequences, FiniteSets, TLC

VARIABLES eds, ret, call, drv

vars == <<eds, ret, call, drv>>

----------------------------------------------------------------------------
(* Bounds of the model *)

MaxCard == 4

DriverMaxCard == 4

MaxL == 2

(* Strings the alternatives of the generated inputs are drawn from *)
Strings == {<<>>, <<"A">>, <<"C">>}

DriverStrings == {<<"A">>, <<"C", "C">>}

----------------------------------------------------------------------------
(* Format constants, common.hpp *)

SET_OPEN == "{"

SET_CLOSE == "}"

SET_SEPARATOR == ","

isspace(ch) == ch \in {" ", "\n", "\t", "\r"}

Digits == <<"0", "1", "2", "3", "4", "5", "6", "7", "8", "9">>

isdigit(ch) == \E d \in 1..10 : Digits[d] = ch

DigitValue(ch) == (CHOOSE d \in 1..10 : Digits[d] = ch) - 1

----------------------------------------------------------------------------
(* Sequence helpers *)

At(v, i) == v[i + 1]

RECURSIVE SumSeq(_)
SumSeq(v) == IF v = <<>> THEN 0 ELSE v[1] + SumSeq(Tail(v))

RECURSIVE Flatten(_)
Flatten(vv) == IF vv = <<>> THEN <<>> ELSE vv[1] \o Flatten(Tail(vv))

(* F applied to the value of v, v computed once and before F *)
Bind(v, F(_)) == CHOOSE r \in {F(x) : x \in {v}} : TRUE

(* std::stoi on a non-empty run of digits *)
RECURSIVE stoi_from(_, _)
stoi_from(digits, acc) ==
    IF digits = <<>> THEN acc
    ELSE stoi_from(Tail(digits), 10 * acc + DigitValue(digits[1]))

stoi(digits) == stoi_from(digits, 0)

(* operator<< of a non-negative int *)
RECURSIVE to_string(_)
to_string(k) ==
    IF k < 10 THEN <<Digits[k + 1]>>
    ELSE to_string(k \div 10) \o <<Digits[(k % 10) + 1]>>

(* the elements of a std::set<int> in iteration (ascending) order *)
RECURSIVE SetInOrder(_)
SetInOrder(S) ==
    IF S = {} THEN <<>>
    ELSE LET lo == CHOOSE x \in S : \A y \in S : x <= y
         IN  <<lo>> \o SetInOrder(S \ {lo})

----------------------------------------------------------------------------
(* Value of a member the constructor left uninitialized *)
Indeterminate == "indeterminate"

(* UINT32_MAX, the start value of min_context_length: larger than every    *)
(* length, kept as a value no length takes                                 *)
UINT32_MAX == -1

(* Outcome of an operation that throws *)
Throw(kind, what) == [ok |-> FALSE, error |-> kind, what |-> what]

----------------------------------------------------------------------------
(* EDS::normalize_eds_format *)

Wrapped(current_string) == <<SET_OPEN>> \o current_string \o <<SET_CLOSE>>

RECURSIVE normalize_loop(_, _, _, _, _)
normalize_loop(input, i, result, current_string, brace_depth) ==
    IF i >= Len(input)
    THEN IF current_string # <<>> /\ brace_depth = 0
         THEN result \o Wrapped(current_string)
         ELSE result
    ELSE LET ch == At(input, i) IN
         IF ch = SET_OPEN
         THEN IF current_string # <<>> /\ brace_depth = 0
              THEN normalize_loop(input, i + 1,
                                  result \o Wrapped(current_string) \o <<ch>>,
                                  <<>>, brace_depth + 1)
              ELSE normalize_loop(input, i + 1, result \o <<ch>>,
                                  current_string, brace_depth + 1)
         ELSE IF ch = SET_CLOSE
         THEN normalize_loop(input, i + 1, result \o <<ch>>,
                             current_string, brace_depth - 1)
         ELSE IF brace_depth > 0
         THEN normalize_loop(input, i + 1, result \o <<ch>>,
                             current_string, brace_depth)
         ELSE normalize_loop(input, i + 1, result,
                             current_string \o <<ch>>, brace_depth)

normalize_eds_format(input) == normalize_loop(input, 0, <<>>, <<>>, 0)

----------------------------------------------------------------------------
(* EDS::calculate_statistics: the statistics and the cumulative arrays,    *)
(* computed from n, symbol_sizes, is_degenerate and string_lengths.        *)

(* first loop (lines 391-424); st carries the running statistics and       *)
(* string_idx                                                              *)
RECURSIVE count_empty(_, _, _)
count_empty(string_lengths, string_idx, symbol_size) ==
    IF symbol_size = 0 THEN 0
    ELSE (IF At(string_lengths, string_idx) = 0 THEN 1 ELSE 0)
         + count_empty(string_lengths, string_idx + 1, symbol_size - 1)

RECURSIVE stats_loop(_, _, _)
stats_loop(e, i, st) ==
    IF i >= e.n THEN st
    ELSE LET symbol_size == At(e.symbol_sizes, i)
             context_len == At(e.string_lengths, st.string_idx)
             st1 == IF At(e.is_degenerate, i)
                    THEN [st EXCEPT !.num_degenerate_symbols = @ + 1,
                                    !.total_change_size = @ + (symbol_size - 1)]
                    ELSE [st EXCEPT
                            !.min_context_length =
                                IF @ = UINT32_MAX \/ context_len < @
                                THEN context_len ELSE @,
                            !.max_context_length =
                                IF context_len > @ THEN context_len ELSE @,
                            !.total_context_length = @ + context_len,
                            !.num_context_blocks = @ + 1,
                            !.num_common_chars = @ + context_len]
         IN  stats_loop(e, i + 1,
                 [st1 EXCEPT
                    !.num_empty_strings =
                        @ + count_empty(e.string_lengths, st.string_idx, symbol_size),
                    !.string_idx = @ + symbol_size])

(* second loop (lines 442-455) *)
RECURSIVE cum_common_loop(_, _, _, _, _)
cum_common_loop(e, i, string_idx, cumulative_common, out) ==
    IF i >= e.n THEN out
    ELSE LET c == IF ~At(e.is_degenerate, i)
                  THEN cumulative_common + At(e.string_lengths, string_idx)
                  ELSE cumulative_common
         IN  cum_common_loop(e, i + 1, string_idx + At(e.symbol_sizes, i),
                             c, Append(out, c))

(* third loop (lines 461-469) *)
RECURSIVE cum_degenerate_loop(_, _, _, _)
cum_degenerate_loop(e, i, cumulative_degenerate, out) ==
    IF i >= e.n THEN out
    ELSE LET c == IF At(e.is_degenerate, i)
                  THEN cumulative_degenerate + At(e.symbol_sizes, i)
                  ELSE cumulative_degenerate
         IN  cum_degenerate_loop(e, i + 1, c, Append(out, c))

calculate_statistics(e) ==
    IF e.is_empty
    THEN [e EXCEPT !.min_context_length = 0,
                   !.max_context_length = 0,
                   !.avg_context_length = <<0, 0>>,
                   !.num_degenerate_symbols = 0,
                   !.num_common_chars = 0,
                   !.total_change_size = 0,
                   !.num_empty_strings = 0,
                   !.num_paths = 0,
                   !.max_paths_per_string = 0,
                   !.avg_paths_per_string = <<0, 0>>,
                   !.cum_common_positions = <<>>,
                   !.cum_degenerate_counts = <<>>]
    ELSE LET st == stats_loop(e, 0,
                     [min_context_length |-> UINT32_MAX,
                      max_context_length |-> 0,
                      num_degenerate_symbols |-> 0,
                      num_common_chars |-> 0,
                      total_change_size |-> 0,
                      num_empty_strings |-> 0,
                      total_context_length |-> 0,
                      num_context_blocks |-> 0,
                      string_idx |-> 0])
         IN  [e EXCEPT
                !.min_context_length =
                    IF st.min_context_length = UINT32_MAX THEN 0
                    ELSE st.min_context_length,
                !.max_context_length = st.max_context_length,
                !.avg_context_length =
                    IF st.num_context_blocks > 0
                    THEN <<st.total_context_length, st.num_context_blocks>>
                    ELSE <<0, 0>>,
                !.num_degenerate_symbols = st.num_degenerate_symbols,
                !.num_common_chars = st.num_common_chars,
                !.total_change_size = st.total_change_size,
                !.num_empty_strings = st.num_empty_strings,
                !.cum_common_positions = cum_common_loop(e, 0, 0, 0, <<0>>),
                !.cum_degenerate_counts = cum_degenerate_loop(e, 0, 0, <<0>>)]

(* EDS::calculate_source_statistics; the averages are kept as the pair     *)
(* <<numerator, denominator>>                                              *)
calculate_source_statistics(e) ==
    IF ~e.has_sources \/ e.sources = <<>>
    THEN [e EXCEPT !.num_paths = 0,
                   !.max_paths_per_string = 0,
                   !.avg_paths_per_string = <<0, 0>>]
    ELSE LET idx == 1..Len(e.sources)
             sizes == [g \in idx |-> Cardinality(e.sources[g])]
         IN  [e EXCEPT
                !.num_paths = Cardinality(UNION {e.sources[g] : g \in idx}),
                !.max_paths_per_string =
                    CHOOSE k \in {sizes[g] : g \in idx} :
                        \A g \in idx : sizes[g] <= k,
                !.avg_paths_per_string = <<SumSeq(sizes), Len(e.sources)>>]

----------------------------------------------------------------------------
(* The object a constructor starts from: is_empty_(false), the mode,       *)
(* has_sources_(false); containers empty, scalars not yet set.             *)
NewEDS(mode, file) ==
    [is_empty |-> FALSE, n |-> Indeterminate, N |-> Indeterminate,
     m |-> Indeterminate, mode |-> mode,
     file |-> IF mode = "METADATA_ONLY" THEN file ELSE <<>>,
     stream_open |-> FALSE,
     sets |-> <<>>,
     base_positions |-> <<>>, symbol_sizes |-> <<>>, string_lengths |-> <<>>,
     cum_set_sizes |-> <<>>, is_degenerate |-> <<>>,
     min_context_length |-> Indeterminate,
     max_context_length |-> Indeterminate,
     avg_context_length |-> Indeterminate,
     num_degenerate_symbols |-> Indeterminate,
     num_common_chars |-> Indeterminate,
     total_change_size |-> Indeterminate,
     num_empty_strings |-> Indeterminate,
     num_paths |-> Indeterminate,
     max_paths_per_string |-> Indeterminate,
     avg_paths_per_string |-> Indeterminate,
     cum_common_positions |-> <<>>, cum_degenerate_counts |-> <<>>,
     has_sources |-> FALSE, sources |-> <<>>]

(* EDS::parse, the inner loop over the strings of one set (lines 90-110) *)
RECURSIVE parse_strings(_, _, _, _, _)
parse_strings(input, pos, current_string, lengths, current_set) ==
    IF pos < Len(input) /\ At(input, pos) # SET_CLOSE
    THEN IF At(input, pos) = SET_SEPARATOR
         THEN parse_strings(input, pos + 1, <<>>,
                            Append(lengths, Len(current_string)),
                            Append(current_set, current_string))
         ELSE parse_strings(input, pos + 1,
                            Append(current_string, At(input, pos)),
                            lengths, current_set)
    ELSE [pos |-> pos,
          lengths |-> Append(lengths, Len(current_string)),
          current_set |-> Append(current_set, current_string)]

(* EDS::parse, the loop over the symbols (lines 74-145) *)
RECURSIVE parse_symbols(_, _, _)
parse_symbols(input, pos, e) ==
    IF pos >= Len(input) THEN [ok |-> TRUE, eds |-> e]
    ELSE IF At(input, pos) # SET_OPEN
    THEN Throw("runtime_error", <<"Expected '{' at position", pos>>)
    ELSE LET p == parse_strings(input, pos + 1, <<>>, <<>>, <<>>)
             symbol_size == Len(p.lengths)
         IN  IF p.pos >= Len(input) \/ At(input, p.pos) # SET_CLOSE
             THEN Throw("runtime_error", <<"Expected '}' at position", p.pos>>)
             ELSE IF symbol_size = 0
             THEN Throw("runtime_error", <<"Empty set at position", p.pos + 1>>)
             ELSE parse_symbols(input, p.pos + 1,
                    [e EXCEPT
                       !.base_positions = Append(@, pos),
                       !.string_lengths = @ \o p.lengths,
                       !.N = @ + SumSeq(p.lengths),
                       !.symbol_sizes = Append(@, symbol_size),
                       !.cum_set_sizes = Append(@, e.m),
                       !.is_degenerate = Append(@, symbol_size > 1),
                       !.sets = IF e.mode = "FULL"
                                THEN Append(@, p.current_set) ELSE @,
                       !.m = @ + symbol_size,
                       !.n = @ + 1])

(* EDS::parse *)
parse(e, is) ==
    LET stripped == SelectSeq(is, LAMBDA ch : ~isspace(ch)) IN
    IF stripped = <<>>
    THEN [ok |-> TRUE, eds |-> [e EXCEPT !.is_empty = TRUE, !.n = 0, !.N = 0, !.m = 0]]
    ELSE LET r == Bind(normalize_eds_format(stripped),
                       LAMBDA input :
                         parse_symbols(input, 0,
                           [e EXCEPT !.n = 0, !.N = 0, !.m = 0, !.sets = <<>>,
                                     !.base_positions = <<>>, !.symbol_sizes = <<>>,
                                     !.string_lengths = <<>>, !.cum_set_sizes = <<>>,
                                     !.is_degenerate = <<>>]))
         IN  IF ~r.ok THEN r
             ELSE IF r.eds.n = 0
             THEN [ok |-> TRUE, eds |-> [r.eds EXCEPT !.is_empty = TRUE]]
             ELSE [ok |-> TRUE,
                   eds |-> calculate_statistics([r.eds EXCEPT !.is_empty = FALSE])]

----------------------------------------------------------------------------
(* EDS::parse_sources.  A throw leaves the object as it is at that point,  *)
(* carried in the field eds of the outcome.                                *)

ThrowWith(kind, what, e) ==
    [ok |-> FALSE, error |-> kind, what |-> what, eds |-> e]

(* inner loop over the path ids of one group (lines 298-318); bad is set   *)
(* when a character is neither a digit nor a separator                     *)
RECURSIVE parse_path_ids(_, _, _, _)
parse_path_ids(input, pos, current_number, path_set) ==
    IF pos < Len(input) /\ At(input, pos) # SET_CLOSE
    THEN IF At(input, pos) = SET_SEPARATOR
         THEN IF current_number # <<>>
              THEN parse_path_ids(input, pos + 1, <<>>,
                                  path_set \cup {stoi(current_number)})
              ELSE parse_path_ids(input, pos + 1, current_number, path_set)
         ELSE IF isdigit(At(input, pos))
         THEN parse_path_ids(input, pos + 1,
                             Append(current_number, At(input, pos)), path_set)
         ELSE [bad |-> TRUE, pos |-> pos, path_set |-> path_set]
    ELSE [bad |-> FALSE, pos |-> pos,
          path_set |-> IF current_number # <<>>
                       THEN path_set \cup {stoi(current_number)}
                       ELSE path_set]

(* loop over the groups (lines 287-343) *)
RECURSIVE parse_source_groups(_, _, _)
parse_source_groups(input, pos, e) ==
    IF pos >= Len(input) THEN [ok |-> TRUE, eds |-> e]
    ELSE IF At(input, pos) # SET_OPEN
    THEN ThrowWith("runtime_error", <<"sEDS: Expected '{' at position", pos>>, e)
    ELSE LET p == parse_path_ids(input, pos + 1, <<>>, {}) IN
         IF p.bad
         THEN ThrowWith("runtime_error", <<"sEDS: Invalid character at position", p.pos>>, e)
         ELSE IF p.pos >= Len(input) \/ At(input, p.pos) # SET_CLOSE
         THEN ThrowWith("runtime_error", <<"sEDS: Expected '}' at position", p.pos>>, e)
         ELSE IF p.path_set = {}
         THEN ThrowWith("runtime_error", <<"sEDS: Empty path set at string", Len(e.sources)>>, e)
         ELSE parse_source_groups(input, p.pos + 1,
                                  [e EXCEPT !.sources = Append(@, p.path_set)])

parse_sources(e, is) ==
    LET input == SelectSeq(is, LAMBDA ch : ~isspace(ch)) IN
    IF input = <<>>
    THEN ThrowWith("runtime_error", <<"sEDS input is empty">>, e)
    ELSE LET r == parse_source_groups(input, 0, [e EXCEPT !.sources = <<>>]) IN
         IF ~r.ok THEN r
         ELSE IF Len(r.eds.sources) # r.eds.m
         THEN ThrowWith("runtime_error",
                        <<"sEDS: Source count does not match EDS cardinality">>, r.eds)
         ELSE [ok |-> TRUE,
               eds |-> calculate_source_statistics([r.eds EXCEPT !.has_sources = TRUE])]

----------------------------------------------------------------------------
(* Constructors.  The string and stream constructors are always FULL mode; *)
(* EDS::load takes the mode and keeps the stream open in METADATA_ONLY.    *)

(* EDS::EDS(const std::string&), EDS::EDS(std::istream&) *)
EDS_from_string(eds_string) == parse(NewEDS("FULL", eds_string), eds_string)

(* EDS::EDS(const std::string&, const std::string&) *)
EDS_from_strings(eds_string, seds_string) ==
    LET r == parse(NewEDS("FULL", eds_string), eds_string) IN
    IF ~r.ok THEN r
    ELSE LET s == parse_sources(r.eds, seds_string) IN
         IF s.ok THEN s ELSE Throw(s.error, s.what)

OpenStream(e) ==
    IF e.mode = "METADATA_ONLY" THEN [e EXCEPT !.stream_open = TRUE] ELSE e

(* EDS::load(path, mode) *)
EDS_load(file, mode) ==
    LET r == parse(NewEDS(mode, file), file) IN
    IF ~r.ok THEN r ELSE [ok |-> TRUE, eds |-> OpenStream(r.eds)]

(* EDS::load(eds_path, seds_path, mode) *)
EDS_load_with_sources(file, seds_file, mode) ==
    LET r == parse(NewEDS(mode, file), file) IN
    IF ~r.ok THEN r
    ELSE LET s == parse_sources(r.eds, seds_file) IN
         IF s.ok THEN [ok |-> TRUE, eds |-> OpenStream(s.eds)]
         ELSE Throw(s.error, s.what)

----------------------------------------------------------------------------
(* EDS::merge_adjacent *)

(* source_intersection without the handling of the universal marker *)
source_intersection_plain(sources1, sources2) == sources1 \cap sources2

(* the source intersection with the universal marker {0} (lines 1479-1500, *)
(* repeated at 1653-1669)                                                  *)
source_intersection(sources1, sources2) ==
    IF 0 \in sources1 /\ 0 \in sources2 THEN {0}
    ELSE IF 0 \in sources1 THEN sources2
    ELSE IF 0 \in sources2 THEN sources1
    ELSE sources1 \cap sources2

(* CARTESIAN: string lengths of all combinations (lines 1462-1468) *)
RECURSIVE cartesian_lengths(_, _, _, _, _, _, _, _)
cartesian_lengths(e, idx1, idx2, set1_size, set2_size, i, j, out) ==
    IF i >= set1_size THEN out
    ELSE IF j >= set2_size
    THEN cartesian_lengths(e, idx1, idx2, set1_size, set2_size, i + 1, 0, out)
    ELSE cartesian_lengths(e, idx1, idx2, set1_size, set2_size, i, j + 1,
             Append(out, At(e.string_lengths, idx1 + i)
                         + At(e.string_lengths, idx2 + j)))

(* linear_metadata keeping the combinations with an empty intersection too *)
RECURSIVE linear_metadata_unfiltered(_, _, _, _, _, _, _, _)
linear_metadata_unfiltered(e, idx1, idx2, set1_size, set2_size, i, j, out) ==
    IF i >= set1_size THEN out
    ELSE IF j >= set2_size
    THEN linear_metadata_unfiltered(e, idx1, idx2, set1_size, set2_size, i + 1, 0, out)
    ELSE linear_metadata_unfiltered(e, idx1, idx2, set1_size, set2_size, i, j + 1,
             [merged_sources |->
                  Append(out.merged_sources,
                         source_intersection(At(e.sources, idx1 + i),
                                             At(e.sources, idx2 + j))),
              merged_string_lengths |->
                  Append(out.merged_string_lengths,
                         At(e.string_lengths, idx1 + i)
                         + At(e.string_lengths, idx2 + j))])

(* LINEAR: the kept combinations, their sources and lengths (1471-1508) *)
RECURSIVE linear_metadata(_, _, _, _, _, _, _, _)
linear_metadata(e, idx1, idx2, set1_size, set2_size, i, j, out) ==
    IF i >= set1_size THEN out
    ELSE IF j >= set2_size
    THEN linear_metadata(e, idx1, idx2, set1_size, set2_size, i + 1, 0, out)
    ELSE LET intersection == source_intersection(At(e.sources, idx1 + i),
                                                 At(e.sources, idx2 + j))
         IN  linear_metadata(e, idx1, idx2, set1_size, set2_size, i, j + 1,
                 IF intersection # {}
                 THEN [merged_sources |-> Append(out.merged_sources, intersection),
                       merged_string_lengths |->
                           Append(out.merged_string_lengths,
                                  At(e.string_lengths, idx1 + i)
                                  + At(e.string_lengths, idx2 + j))]
                 ELSE out)

(* cartesian_set with the two loops exchanged *)
RECURSIVE cartesian_set_swapped(_, _, _, _, _)
cartesian_set_swapped(set1, set2, i, j, merged_set) ==
    IF j >= Len(set2) THEN merged_set
    ELSE IF i >= Len(set1) THEN cartesian_set_swapped(set1, set2, 0, j + 1, merged_set)
    ELSE cartesian_set_swapped(set1, set2, i + 1, j,
                               Append(merged_set, At(set1, i) \o At(set2, j)))

(* CARTESIAN: the merged set (lines 1640-1644) *)
RECURSIVE cartesian_set(_, _, _, _, _)
cartesian_set(set1, set2, i, j, merged_set) ==
    IF i >= Len(set1) THEN merged_set
    ELSE IF j >= Len(set2) THEN cartesian_set(set1, set2, i + 1, 0, merged_set)
    ELSE cartesian_set(set1, set2, i, j + 1,
                       Append(merged_set, At(set1, i) \o At(set2, j)))

(* LINEAR: the merged set (lines 1647-1675) *)
RECURSIVE linear_set(_, _, _, _, _, _, _, _)
linear_set(e, set1, set2, idx1, idx2, i, j, merged_set) ==
    IF i >= Len(set1) THEN merged_set
    ELSE IF j >= Len(set2)
    THEN linear_set(e, set1, set2, idx1, idx2, i + 1, 0, merged_set)
    ELSE LET intersection == source_intersection(At(e.sources, idx1 + i),
                                                 At(e.sources, idx2 + j))
         IN  linear_set(e, set1, set2, idx1, idx2, i, j + 1,
                 IF intersection # {}
                 THEN Append(merged_set, At(set1, i) \o At(set2, j))
                 ELSE merged_set)

(* copy_metadata taking cum_set_sizes over from the input instead of the   *)
(* running index                                                           *)
RECURSIVE copy_metadata_stale(_, _, _, _)
copy_metadata_stale(e, i, last, result) ==
    IF i >= last THEN result
    ELSE copy_metadata_stale(e, i + 1, last,
            [result EXCEPT
               !.base_positions = Append(@, At(e.base_positions, i)),
               !.symbol_sizes = Append(@, At(e.symbol_sizes, i)),
               !.is_degenerate = Append(@, At(e.is_degenerate, i)),
               !.cum_set_sizes = Append(@, At(e.cum_set_sizes, i)),
               !.string_lengths =
                   @ \o [j \in 1..At(e.symbol_sizes, i) |->
                            At(e.string_lengths, At(e.cum_set_sizes, i) + j - 1)],
               !.m = @ + At(e.symbol_sizes, i)])

(* copy of the metadata of the positions [i, last) (lines 1542-1556 and    *)
(* 1571-1585); result.m carries current_string_idx                         *)
RECURSIVE copy_metadata(_, _, _, _)
copy_metadata(e, i, last, result) ==
    IF i >= last THEN result
    ELSE copy_metadata(e, i + 1, last,
            [result EXCEPT
               !.base_positions = Append(@, At(e.base_positions, i)),
               !.symbol_sizes = Append(@, At(e.symbol_sizes, i)),
               !.is_degenerate = Append(@, At(e.is_degenerate, i)),
               !.cum_set_sizes = Append(@, result.m),
               !.string_lengths =
                   @ \o [j \in 1..At(e.symbol_sizes, i) |->
                            At(e.string_lengths, At(e.cum_set_sizes, i) + j - 1)],
               !.m = @ + At(e.symbol_sizes, i)])

(* copy of the sources of the positions [i, last), read from source_idx on *)
(* (lines 1601-1605 and 1616-1620)                                         *)
RECURSIVE copy_sources(_, _, _, _, _)
copy_sources(e, i, last, source_idx, out) ==
    IF i >= last THEN out
    ELSE copy_sources(e, i + 1, last, source_idx + At(e.symbol_sizes, i),
            out \o [j \in 1..At(e.symbol_sizes, i) |->
                       At(e.sources, source_idx + j - 1)])

(* copy_sets starting one position early *)
copy_sets_early(e, i, last) ==
    [k \in 1..(last - i) |-> At(e.sets, IF i > 0 THEN i + k - 2 ELSE k - 1)]

(* copy of the sets of the positions [i, last) (1629-1631, 1681-1683) *)
copy_sets(e, i, last) == [k \in 1..(last - i) |-> At(e.sets, i + k - 1)]

merge_adjacent(e, pos1, pos2) ==
    IF pos2 # pos1 + 1
    THEN Throw("invalid_argument", <<"Positions must be adjacent">>)
    ELSE IF pos1 >= e.n \/ pos2 >= e.n
    THEN Throw("out_of_range", <<"Position out of range">>)
    ELSE
    LET global_string_idx1 == At(e.cum_set_sizes, pos1)
        global_string_idx2 == At(e.cum_set_sizes, pos2)
        set1_size == At(e.symbol_sizes, pos1)
        set2_size == At(e.symbol_sizes, pos2)
        lin == linear_metadata(e, global_string_idx1, global_string_idx2,
                               set1_size, set2_size, 0, 0,
                               [merged_sources |-> <<>>,
                                merged_string_lengths |-> <<>>])
        merged_sources == IF e.has_sources THEN lin.merged_sources ELSE <<>>
        merged_string_lengths ==
            IF ~e.has_sources
            THEN cartesian_lengths(e, global_string_idx1, global_string_idx2,
                                   set1_size, set2_size, 0, 0, <<>>)
            ELSE lin.merged_string_lengths
        merged_size == IF ~e.has_sources THEN set1_size * set2_size
                       ELSE Len(merged_sources)
    IN
    IF e.has_sources /\ merged_size = 0
    THEN Throw("runtime_error", <<"results in empty set (no valid source intersections)">>)
    ELSE
    LET r0 == [NewEDS(e.mode, <<>>) EXCEPT
                 !.is_empty = FALSE, !.has_sources = e.has_sources,
                 !.file = e.file, !.n = e.n - 1, !.m = 0]
        before == copy_metadata(e, 0, pos1, r0)
        merged == [before EXCEPT
                     !.base_positions = Append(@, At(e.base_positions, pos1)),
                     !.symbol_sizes = Append(@, merged_size),
                     !.is_degenerate = Append(@, merged_size > 1),
                     !.cum_set_sizes = Append(@, before.m),
                     !.string_lengths = @ \o merged_string_lengths,
                     !.m = @ + merged_size]
        after == copy_metadata(e, pos2 + 1, e.n, merged)
        counted == [after EXCEPT !.N = SumSeq(after.string_lengths)]
        with_sources ==
            IF e.has_sources
            THEN [counted EXCEPT
                    !.sources =
                        copy_sources(e, pos2 + 1, e.n,
                            At(e.cum_set_sizes, pos2) + At(e.symbol_sizes, pos2),
                            copy_sources(e, 0, pos1, 0, <<>>) \o merged_sources)]
            ELSE counted
        merged_set ==
            IF ~e.has_sources
            THEN cartesian_set(At(e.sets, pos1), At(e.sets, pos2), 0, 0, <<>>)
            ELSE linear_set(e, At(e.sets, pos1), At(e.sets, pos2),
                            global_string_idx1, global_string_idx2, 0, 0, <<>>)
        with_sets ==
            IF e.mode = "FULL"
            THEN [with_sources EXCEPT
                    !.sets = copy_sets(e, 0, pos1) \o <<merged_set>>
                             \o copy_sets(e, pos2 + 1, e.n)]
            ELSE with_sources
        stats == calculate_statistics(with_sets)
    IN  [ok |-> TRUE,
         eds |-> IF e.has_sources THEN calculate_source_statistics(stats)
                 ELSE stats]

----------------------------------------------------------------------------
(* Inputs: EDS texts and source texts over bounded contents *)

(* the symbol sequences with at most c alternatives in total *)
RECURSIVE SymbolSeqs(_, _)
SymbolSeqs(alts, c) ==
    {<<>>} \cup
    UNION {{<<s>> \o rest : s \in [1..k -> alts], rest \in SymbolSeqs(alts, c - k)}
           : k \in 1..c}

RECURSIVE JoinAlternatives(_)
JoinAlternatives(set) ==
    IF Len(set) = 1 THEN set[1]
    ELSE set[1] \o <<SET_SEPARATOR>> \o JoinAlternatives(Tail(set))

(* full form: every symbol in brackets *)
RECURSIVE FullText(_)
FullText(symbols) ==
    IF symbols = <<>> THEN <<>>
    ELSE <<SET_OPEN>> \o JoinAlternatives(symbols[1]) \o <<SET_CLOSE>>
         \o FullText(Tail(symbols))

(* compact form: brackets only around symbols with two or more alternatives *)
RECURSIVE CompactText(_)
CompactText(symbols) ==
    IF symbols = <<>> THEN <<>>
    ELSE (IF Len(symbols[1]) > 1
          THEN <<SET_OPEN>> \o JoinAlternatives(symbols[1]) \o <<SET_CLOSE>>
          ELSE symbols[1][1])
         \o CompactText(Tail(symbols))

(* full form with a newline after every closing bracket *)
RECURSIVE SpacedText(_)
SpacedText(symbols) ==
    IF symbols = <<>> THEN <<"\n">>
    ELSE <<SET_OPEN>> \o JoinAlternatives(symbols[1]) \o <<SET_CLOSE, "\n">>
         \o SpacedText(Tail(symbols))

(* one group of a source text, as save_sources writes it *)
RECURSIVE JoinIds(_)
JoinIds(ids) ==
    IF Len(ids) = 1 THEN to_string(ids[1])
    ELSE to_string(ids[1]) \o <<SET_SEPARATOR>> \o JoinIds(Tail(ids))

SourceGroup(path_set) == <<SET_OPEN>> \o JoinIds(SetInOrder(path_set)) \o <<SET_CLOSE>>

RECURSIVE SourcesText(_)
SourcesText(sources) ==
    IF sources = <<>> THEN <<>>
    ELSE SourceGroup(sources[1]) \o SourcesText(Tail(sources))

(* source sets given to the alternatives in turn, pattern repeated *)
SourcePatterns ==
    { <<{1}, {1}, {2}>>,
      <<{1, 2}, {1}, {0}, {2}>>,
      <<{0, 1}, {2}, {1}>> }

PatternSources(pattern, m) ==
    [g \in 1..m |-> pattern[((g - 1) % Len(pattern)) + 1]]

NoSources == <<"none">>

Cardinal(symbols) == SumSeq([i \in 1..Len(symbols) |-> Len(symbols[i])])

SedsChoices(symbols) ==
    {NoSources} \cup
    {SourcesText(PatternSources(p, Cardinal(symbols))) : p \in SourcePatterns}

Modes == {"FULL", "METADATA_ONLY"}

(* construction of an instance from an EDS text, an optional source text   *)
(* and a storing mode                                                      *)
Construct(text, seds, mode) ==
    IF mode = "FULL"
    THEN IF seds = NoSources THEN EDS_from_string(text)
         ELSE EDS_from_strings(text, seds)
    ELSE IF seds = NoSources THEN EDS_load(text, mode)
         ELSE EDS_load_with_sources(text, seds, mode)

----------------------------------------------------------------------------
(* The library level: an instance, and calls of merge_adjacent on it *)

NoCall == [op |-> "none", pos1 |-> 0, pos2 |-> 0]

NoRet == [ok |-> FALSE, error |-> "none", what |-> <<>>]

DrvIdle == [pc |-> "idle"]

(* the constructions of the model: the full form with and without         *)
(* sources in both modes, the compact and the spaced form in FULL mode     *)
Loads(symbols) ==
    {<<FullText(symbols), seds, mode>> :
        seds \in SedsChoices(symbols), mode \in Modes}
    \cup {<<text, NoSources, "FULL">> :
            text \in {CompactText(symbols), SpacedText(symbols)}}

Init ==
    \E symbols \in SymbolSeqs(Strings, MaxCard) :
      \E load \in Loads(symbols) :
        LET c == Construct(load[1], load[2], load[3]) IN
        /\ c.ok
        /\ eds = c.eds
        /\ ret = NoRet
        /\ call = NoCall
        /\ drv = DrvIdle

(* a call eds.merge_adjacent(pos1, pos2): the instance is const, the       *)
(* outcome is a new instance or an exception                               *)
MergeAdjacent(pos1, pos2) ==
    /\ drv.pc = "idle"
    /\ call.op = "none"
    /\ ret' = merge_adjacent(eds, pos1, pos2)
    /\ call' = [op |-> "merge_adjacent", pos1 |-> pos1, pos2 |-> pos2]
    /\ UNCHANGED <<eds, drv>>

(* the caller goes on with the returned instance                           *)
(* (EDS step2 = step1.merge_adjacent(0, 1))                                *)
Continue ==
    /\ drv.pc = "idle"
    /\ call.op = "merge_adjacent"
    /\ ret.ok
    /\ eds' = ret.eds
    /\ ret' = NoRet
    /\ call' = NoCall
    /\ UNCHANGED drv

(* the calls made: every adjacent pair, the pair past the end, and one     *)
(* pair that is not adjacent                                               *)
Next ==
    \/ \E pos1 \in 0..MaxCard :
          /\ pos1 < eds.n \/ pos1 = 0
          /\ MergeAdjacent(pos1, pos1 + 1)
    \/ MergeAdjacent(0, 2)
    \/ Continue

Spec == Init /\ [][Next]_vars

----------------------------------------------------------------------------
(* Properties of the library level *)

(* the instances the program holds in a state *)
Instances == {eds} \cup (IF ret.ok THEN {ret.eds} ELSE {})

(* number of alternatives before symbol i, from the symbol sizes *)
Before(e, i) == SumSeq(SubSeq(e.symbol_sizes, 1, i))

(* lengths, sources and alternatives of symbol i *)
LengthsOf(e, i) ==
    [j \in 1..At(e.symbol_sizes, i) |-> At(e.string_lengths, Before(e, i) + j - 1)]

SourcesOf(e, i) ==
    [j \in 1..At(e.symbol_sizes, i) |-> At(e.sources, Before(e, i) + j - 1)]

NonDegenerateLength(e) ==
    SumSeq([k \in 1..e.n |->
              IF e.symbol_sizes[k] >= 2 THEN 0
              ELSE At(e.string_lengths, Before(e, k - 1))])

MetadataSums(e) ==
    /\ Len(e.symbol_sizes) = e.n
    /\ Len(e.string_lengths) = e.m
    /\ SumSeq(e.symbol_sizes) = e.m
    /\ SumSeq(e.string_lengths) = e.N
    /\ Len(e.cum_set_sizes) = e.n
    /\ \A i \in 0..(e.n - 1) : At(e.cum_set_sizes, i) = Before(e, i)
    /\ Len(e.is_degenerate) = e.n
    /\ \A i \in 0..(e.n - 1) :
          At(e.is_degenerate, i) = (At(e.symbol_sizes, i) >= 2)
    /\ e.mode = "FULL" =>
          /\ Len(e.sets) = e.n
          /\ Len(Flatten(e.sets)) = e.m
          /\ \A g \in 0..(e.m - 1) :
                At(e.string_lengths, g) = Len(At(Flatten(e.sets), g))

CumCommonEntries(e) ==
    /\ Len(e.cum_common_positions) = e.n + 1
    /\ At(e.cum_common_positions, e.n) = NonDegenerateLength(e)

MergeCalled ==
    /\ call.op = "merge_adjacent"
    /\ call.pos2 = call.pos1 + 1
    /\ call.pos2 < eds.n

(* the pairs (a, b) of the two symbols in product order, a outer: pair k   *)
(* is (k div |S_j|, k mod |S_j|)                                           *)
PairCount == At(eds.symbol_sizes, call.pos1) * At(eds.symbol_sizes, call.pos2)

PairFirst(k) == k \div At(eds.symbol_sizes, call.pos2)

PairSecond(k) == k % At(eds.symbol_sizes, call.pos2)

PairString(k) ==
    At(At(eds.sets, call.pos1), PairFirst(k)) \o At(At(eds.sets, call.pos2), PairSecond(k))

PairLength(k) ==
    LengthsOf(eds, call.pos1)[PairFirst(k) + 1] + LengthsOf(eds, call.pos2)[PairSecond(k) + 1]

(* C2: without sources merge_adjacent(i, i+1) succeeds and puts at i the   *)
(* concatenations a||b in product order, a outer, duplicates kept; the     *)
(* size is |S_i| * |S_j|.                                                  *)
C2_CartesianMerge ==
    (MergeCalled /\ ~eds.has_sources) =>
        /\ ret.ok
        /\ At(ret.eds.symbol_sizes, call.pos1) = PairCount
        /\ LengthsOf(ret.eds, call.pos1) = [k \in 1..PairCount |-> PairLength(k - 1)]
        /\ eds.mode = "FULL" =>
              At(ret.eds.sets, call.pos1) = [k \in 1..PairCount |-> PairString(k - 1)]

(* two symbols of two different alternatives each were merged *)
C2_Witness ==
    /\ MergeCalled /\ ~eds.has_sources /\ ret.ok /\ eds.mode = "FULL"
    /\ At(eds.symbol_sizes, call.pos1) = 2
    /\ At(eds.symbol_sizes, call.pos2) = 2
    /\ At(eds.sets, call.pos1)[1] # At(eds.sets, call.pos1)[2]
    /\ At(eds.sets, call.pos2)[1] # At(eds.sets, call.pos2)[2]

(* the universal-marker algebra: a set holding 0 stands for every path *)
IsUniversal(S) == 0 \in S

AlgebraIntersection(S, T) ==
    CASE IsUniversal(S) /\ IsUniversal(T) -> {0}
      [] IsUniversal(S) /\ ~IsUniversal(T) -> T
      [] ~IsUniversal(S) /\ IsUniversal(T) -> S
      [] OTHER -> S \cap T

PairSources(k) ==
    AlgebraIntersection(SourcesOf(eds, call.pos1)[PairFirst(k) + 1],
                        SourcesOf(eds, call.pos2)[PairSecond(k) + 1])

(* the pairs with a non-empty intersection, in product order *)
KeptPairs ==
    SelectSeq([k \in 1..PairCount |-> k - 1], LAMBDA k : PairSources(k) # {})

(* C3: with sources a successful merge_adjacent(i, i+1) puts at i exactly  *)
(* the concatenations of the pairs with a non-empty source intersection,   *)
(* in product order; alternative k carries the intersection of its pair    *)
(* and the size is the number of such pairs.                               *)
C3_LinearMerge ==
    (MergeCalled /\ eds.has_sources /\ ret.ok) =>
        /\ At(ret.eds.symbol_sizes, call.pos1) = Len(KeptPairs)
        /\ SourcesOf(ret.eds, call.pos1) =
              [k \in 1..Len(KeptPairs) |-> PairSources(KeptPairs[k])]
        /\ LengthsOf(ret.eds, call.pos1) =
              [k \in 1..Len(KeptPairs) |-> PairLength(KeptPairs[k])]
        /\ eds.mode = "FULL" =>
              At(ret.eds.sets, call.pos1) =
                 [k \in 1..Len(KeptPairs) |-> PairString(KeptPairs[k])]

(* some but not all pairs of two degenerate symbols were kept, one of them *)
(* through a universal marker                                              *)
C3_Witness ==
    /\ MergeCalled /\ eds.has_sources /\ ret.ok /\ eds.mode = "FULL"
    /\ At(eds.symbol_sizes, call.pos1) >= 2
    /\ At(eds.symbol_sizes, call.pos2) >= 2
    /\ Len(KeptPairs) > 1
    /\ Len(KeptPairs) < PairCount
    /\ \E j \in 1..At(eds.symbol_sizes, call.pos2) : SourcesOf(eds, call.pos2)[j] = {0}

EmptyMergedSet ==
    /\ ~ret.ok
    /\ ret.error = "runtime_error"
    /\ ret.what = <<"results in empty set (no valid source intersections)">>

(* C4: with sources merge_adjacent(i, i+1) fails with the empty-merged-set *)
(* error exactly when every pair has an empty source intersection, and a   *)
(* failed call returns no instance.                                        *)
C4_EmptyMergeFails ==
    (MergeCalled /\ eds.has_sources) =>
        /\ EmptyMergedSet <=> (KeptPairs = <<>>)
        /\ ~ret.ok => "eds" \notin DOMAIN ret

(* a merge of a degenerate symbol failed because no pair intersects *)
C4_Witness ==
    /\ MergeCalled /\ eds.has_sources /\ EmptyMergedSet
    /\ PairCount >= 2

(* symbol k of instance a is symbol l of instance b: alternatives, their   *)
(* order, string lengths and sources                                       *)
SameSymbol(a, k, b, l) ==
    /\ At(a.symbol_sizes, k) = At(b.symbol_sizes, l)
    /\ LengthsOf(a, k) = LengthsOf(b, l)
    /\ a.mode = "FULL" => At(a.sets, k) = At(b.sets, l)
    /\ a.has_sources => SourcesOf(a, k) = SourcesOf(b, l)

MergeFrame(in, out, pos1, pos2) ==
    /\ out.n = in.n - 1
    /\ out.mode = in.mode
    /\ out.has_sources = in.has_sources
    /\ \A k \in 0..(pos1 - 1) : SameSymbol(in, k, out, k)
    /\ \A k \in (pos2 + 1)..(in.n - 1) : SameSymbol(in, k, out, k - 1)

(* C5: a call of merge_adjacent leaves the instance it is called on as it  *)
(* was, and in the returned instance n' = n - 1 and every symbol before i  *)
(* and after i+1 keeps its alternatives, order, lengths and sources.       *)
C5_MergeFrame ==
    [][ (call.op = "none" /\ call'.op = "merge_adjacent") =>
           /\ eds' = eds
           /\ ret'.ok => MergeFrame(eds, ret'.eds, call'.pos1, call'.pos2) ]_vars

(* a merge with sources in the middle: symbols before and after the pair *)
C5_Witness ==
    /\ MergeCalled /\ ret.ok /\ eds.has_sources
    /\ call.pos1 >= 1
    /\ call.pos2 < eds.n - 1
    /\ MergeFrame(eds, ret.eds, call.pos1, call.pos2)

----------------------------------------------------------------------------
(* EDS::read_symbol, EDS::save and EDS::save_sources *)

(* the loop of read_symbol_from_stream over the characters of one symbol *)
RECURSIVE read_stream_loop(_, _, _, _)
read_stream_loop(file, p, current_str, result) ==
    IF p >= Len(file) \/ At(file, p) = SET_CLOSE
    THEN Append(result, current_str)
    ELSE IF At(file, p) = SET_SEPARATOR
    THEN read_stream_loop(file, p + 1, <<>>, Append(result, current_str))
    ELSE IF ~isspace(At(file, p))
    THEN read_stream_loop(file, p + 1, Append(current_str, At(file, p)), result)
    ELSE read_stream_loop(file, p + 1, current_str, result)

read_symbol_from_stream(e, pos) ==
    IF e.mode = "FULL" THEN [ok |-> TRUE, value |-> At(e.sets, pos)]
    ELSE IF ~e.stream_open
    THEN Throw("runtime_error", <<"File stream not available for reading symbol">>)
    ELSE LET p == At(e.base_positions, pos) IN
         IF p >= Len(e.file) \/ At(e.file, p) # SET_OPEN
         THEN Throw("runtime_error", <<"Expected '{' at position">>)
         ELSE [ok |-> TRUE, value |-> read_stream_loop(e.file, p + 1, <<>>, <<>>)]

read_symbol(e, pos) ==
    IF pos >= e.n THEN Throw("out_of_range", <<"Position out of range">>)
    ELSE read_symbol_from_stream(e, pos)

(* the loop of save over the sets *)
RECURSIVE save_loop(_, _, _)
save_loop(e, i, format) ==
    IF i >= Len(e.sets) THEN <<"\n">>
    ELSE LET use_brackets == (format = "FULL") \/ At(e.is_degenerate, i) IN
         (IF use_brackets THEN <<SET_OPEN>> ELSE <<>>)
         \o JoinAlternatives(At(e.sets, i))
         \o (IF use_brackets THEN <<SET_CLOSE>> ELSE <<>>)
         \o save_loop(e, i + 1, format)

save(e, format) ==
    IF e.mode = "METADATA_ONLY"
    THEN Throw("runtime_error", <<"Cannot save EDS in METADATA_ONLY mode">>)
    ELSE [ok |-> TRUE, os |-> save_loop(e, 0, format)]

save_sources(e) ==
    IF ~e.has_sources
    THEN Throw("runtime_error", <<"Cannot save sources: no sources loaded">>)
    ELSE [ok |-> TRUE, os |-> SourcesText(e.sources) \o <<"\n">>]

----------------------------------------------------------------------------
(* eds_transforms.cpp: is_leds, the waves and the two drivers *)

(* is_leds that does not look at adjacent degenerate symbols *)
RECURSIVE is_leds_blocks_only(_, _, _)
is_leds_blocks_only(e, context_length, i) ==
    IF i >= e.n THEN TRUE
    ELSE IF /\ ~At(e.is_degenerate, i)
            /\ i > 0 /\ i < e.n - 1
            /\ At(e.string_lengths, At(e.cum_set_sizes, i)) < context_length
    THEN FALSE
    ELSE is_leds_blocks_only(e, context_length, i + 1)

(* the loop of is_leds over the positions *)
RECURSIVE is_leds_loop(_, _, _)
is_leds_loop(e, context_length, i) ==
    IF i >= e.n THEN TRUE
    ELSE IF /\ ~At(e.is_degenerate, i)
            /\ i > 0 /\ i < e.n - 1
            /\ At(e.string_lengths, At(e.cum_set_sizes, i)) < context_length
    THEN FALSE
    ELSE IF i + 1 < e.n /\ At(e.is_degenerate, i) /\ At(e.is_degenerate, i + 1)
    THEN FALSE
    ELSE is_leds_loop(e, context_length, i + 1)

is_leds(e, context_length) ==
    IF context_length = 0 THEN TRUE ELSE is_leds_loop(e, context_length, 0)

MergePair(p1, p2) == [pos1 |-> p1, pos2 |-> p2]

(* the selection seeing only pairs of two degenerate symbols *)
RECURSIVE select_degenerate_pairs(_, _, _, _, _)
select_degenerate_pairs(e, context_length, i, used, pairs) ==
    IF i + 1 >= e.n THEN pairs
    ELSE IF used[i] \/ used[i + 1]
    THEN select_degenerate_pairs(e, context_length, i + 1, used, pairs)
    ELSE IF At(e.is_degenerate, i) /\ At(e.is_degenerate, i + 1)
    THEN select_degenerate_pairs(e, context_length, i + 1,
             [used EXCEPT ![i] = TRUE, ![i + 1] = TRUE],
             Append(pairs, MergePair(i, i + 1)))
    ELSE select_degenerate_pairs(e, context_length, i + 1, used, pairs)

(* the selection that does not look at the positions already used *)
RECURSIVE select_overlapping(_, _, _, _, _)
select_overlapping(e, context_length, i, used, pairs) ==
    IF i + 1 >= e.n THEN pairs
    ELSE
    LET short(k) ==
            /\ ~At(e.is_degenerate, k)
            /\ k > 0 /\ k < e.n - 1
            /\ At(e.string_lengths, At(e.cum_set_sizes, k)) < context_length
        should_merge ==
            \/ short(i)
            \/ short(i + 1)
            \/ At(e.is_degenerate, i) /\ At(e.is_degenerate, i + 1)
    IN
    IF should_merge
    THEN select_overlapping(e, context_length, i + 1, used,
                            Append(pairs, MergePair(i, i + 1)))
    ELSE select_overlapping(e, context_length, i + 1, used, pairs)

(* the greedy loop of select_independent_merge_pairs (lines 63-104) *)
RECURSIVE select_loop(_, _, _, _, _)
select_loop(e, context_length, i, used, pairs) ==
    IF i + 1 >= e.n THEN pairs
    ELSE IF used[i] \/ used[i + 1]
    THEN select_loop(e, context_length, i + 1, used, pairs)
    ELSE
    LET short(k) ==
            /\ ~At(e.is_degenerate, k)
            /\ k > 0 /\ k < e.n - 1
            /\ At(e.string_lengths, At(e.cum_set_sizes, k)) < context_length
        should_merge ==
            \/ short(i)
            \/ short(i + 1)
            \/ At(e.is_degenerate, i) /\ At(e.is_degenerate, i + 1)
    IN
    IF should_merge
    THEN select_loop(e, context_length, i + 1,
                     [used EXCEPT ![i] = TRUE, ![i + 1] = TRUE],
                     Append(pairs, MergePair(i, i + 1)))
    ELSE select_loop(e, context_length, i + 1, used, pairs)

select_independent_merge_pairs(e, context_length) ==
    IF e.n < 2 THEN <<>>
    ELSE select_loop(e, context_length, 0, [k \in 0..(e.n - 1) |-> FALSE], <<>>)

(* merge_multiple_pairs: every pair merged on the original instance, the   *)
(* merged symbol and its sources taken out of the result; the parallel     *)
(* loop writes results[i] from pairs[i] alone and gives the same vector    *)
RECURSIVE merge_multiple_pairs(_, _, _, _)
merge_multiple_pairs(e, pairs, i, results) ==
    IF i >= Len(pairs) THEN [ok |-> TRUE, results |-> results]
    ELSE
    LET pair == At(pairs, i)
        merged == merge_adjacent(e, pair.pos1, pair.pos2)
    IN
    IF ~merged.ok THEN merged
    ELSE
    LET merged_set == read_symbol(merged.eds, pair.pos1)
        merged_size == At(merged.eds.symbol_sizes, pair.pos1)
        global_idx == At(merged.eds.cum_set_sizes, pair.pos1)
    IN
    IF ~merged_set.ok THEN merged_set
    ELSE merge_multiple_pairs(e, pairs, i + 1,
             Append(results,
                    [original_pos1 |-> pair.pos1,
                     original_pos2 |-> pair.pos2,
                     merged_set |-> merged_set.value,
                     merged_sources |->
                         IF e.has_sources
                         THEN [j \in 1..merged_size |->
                                 At(merged.eds.sources, global_idx + j - 1)]
                         ELSE <<>>]))

(* merge_map and skip of reconstruct_eds (lines 212-218) *)
merge_map(original, merge_results) ==
    [pos \in 0..(original.n - 1) |->
        LET hits == {i \in 1..Len(merge_results) :
                        merge_results[i].original_pos1 = pos}
        IN IF hits = {} THEN -1
           ELSE (CHOOSE i \in hits : \A h \in hits : h <= i) - 1]

skip(original, merge_results) ==
    [pos \in 0..(original.n - 1) |->
        \E i \in 1..Len(merge_results) : merge_results[i].original_pos2 = pos]

SymbolText(set) == <<SET_OPEN>> \o JoinAlternatives(set) \o <<SET_CLOSE>>

(* the text loop of reconstruct_eds that writes the consumed positions too *)
RECURSIVE reconstruct_streams_noskip(_, _, _, _)
reconstruct_streams_noskip(original, merge_results, pos, out) ==
    IF pos >= original.n THEN out
    ELSE reconstruct_streams_noskip(original, merge_results, pos + 1,
             [eds_stream |-> out.eds_stream \o SymbolText(At(original.sets, pos)),
              sources_stream |->
                  IF original.has_sources
                  THEN out.sources_stream
                       \o SourcesText([i \in 1..At(original.symbol_sizes, pos) |->
                              At(original.sources,
                                 At(original.cum_set_sizes, pos) + i - 1)])
                  ELSE out.sources_stream])

(* the text loop of reconstruct_eds (lines 226-284) *)
RECURSIVE reconstruct_streams(_, _, _, _)
reconstruct_streams(original, merge_results, pos, out) ==
    IF pos >= original.n THEN out
    ELSE IF skip(original, merge_results)[pos]
    THEN reconstruct_streams(original, merge_results, pos + 1, out)
    ELSE IF merge_map(original, merge_results)[pos] >= 0
    THEN LET result == At(merge_results, merge_map(original, merge_results)[pos]) IN
         reconstruct_streams(original, merge_results, pos + 1,
             [eds_stream |-> out.eds_stream \o SymbolText(result.merged_set),
              sources_stream |->
                  IF original.has_sources
                  THEN out.sources_stream \o SourcesText(result.merged_sources)
                  ELSE out.sources_stream])
    ELSE LET symbol == read_symbol(original, pos).value IN
         reconstruct_streams(original, merge_results, pos + 1,
             [eds_stream |-> out.eds_stream \o SymbolText(symbol),
              sources_stream |->
                  IF original.has_sources
                  THEN out.sources_stream
                       \o SourcesText([i \in 1..At(original.symbol_sizes, pos) |->
                              At(original.sources,
                                 At(original.cum_set_sizes, pos) + i - 1)])
                  ELSE out.sources_stream])

(* reconstruct_eds: the texts are written and parsed again *)
reconstruct_eds(original, merge_results) ==
    LET out == reconstruct_streams(original, merge_results, 0,
                                   [eds_stream |-> <<>>, sources_stream |-> <<>>])
    IN IF original.has_sources
       THEN EDS_from_strings(out.eds_stream, out.sources_stream)
       ELSE EDS_from_string(out.eds_stream)

(* the safety limit of the drivers' loops, here a parameter of the model *)
MAX_ITERATIONS == 3

(* a loader of the linear driver that insists on a phasing input *)
linear_load_strict(input, phasing_input) ==
    IF phasing_input = NoSources
    THEN Throw("invalid_argument", <<"Linear mode requires a source file">>)
    ELSE EDS_from_strings(input, phasing_input)

(* line 327: EDS(input, *phasing_input) or EDS(input) *)
linear_load(input, phasing_input) ==
    IF phasing_input # NoSources
    THEN EDS_from_strings(input, phasing_input)
    ELSE EDS_from_string(input)

----------------------------------------------------------------------------
(* The driver level: one call of eds_to_leds_linear or of                  *)
(* eds_to_leds_cartesian, a step per pass of its loop                      *)

RECURSIVE Pow2(_)
Pow2(k) == IF k = 0 THEN 1 ELSE 2 * Pow2(k - 1)

(* 2^k + 1 one-letter common blocks with floor 2^(k-1) + 1: k waves *)
Chain(k) ==
    [input |-> FullText([i \in 1..(Pow2(k) + 1) |-> << <<"A">> >>]),
     phasing_input |-> NoSources,
     context_length |-> Pow2(k - 1) + 1]

ScenarioSymbols ==
    << << <<"A", "G", "T", "C">> >>,
       << <<>>, <<"C", "C">> >>,
       << <<"T">> >>,
       << <<"C">>, <<"A">> >>,
       << <<"T", "A", "T", "A">> >> >>

ScenarioSources == <<{0}, {1, 3}, {2}, {0}, {1}, {2, 3}, {0}>>

ScenarioFloor == 4

Scenario(phasing_input) ==
    [input |-> FullText(ScenarioSymbols),
     phasing_input |-> phasing_input,
     context_length |-> ScenarioFloor]

Unclosed == [input |-> <<SET_OPEN, "A">>, phasing_input |-> NoSources,
             context_length |-> 1]

DriverInputs ==
    UNION {{[input |-> FullText(symbols), phasing_input |-> seds,
              context_length |-> L] : seds \in SedsChoices(symbols), L \in 0..MaxL}
           : symbols \in SymbolSeqs(DriverStrings, DriverMaxCard) \ {<<>>}}
    \cup {[input |-> text, phasing_input |-> NoSources, context_length |-> L] :
             text \in {<<>>, CompactText(<< << <<"A">> >>, << <<"A">>, <<"C">> >> >>)},
             L \in 0..MaxL}
    \cup {Chain(2), Chain(3)}
    \cup {Scenario(NoSources), Scenario(SourcesText(ScenarioSources)), Unclosed}

Variants == {"eds_to_leds_linear", "eds_to_leds_cartesian"}

NoInstance == NewEDS("FULL", <<>>)

InitDriver ==
    \E in \in DriverInputs : \E variant \in Variants : \E compact \in BOOLEAN :
        /\ variant = "eds_to_leds_cartesian" => in.phasing_input = NoSources
        /\ drv = [pc |-> "start",
                  input |-> in.input,
                  phasing_input |-> in.phasing_input,
                  context_length |-> in.context_length,
                  compact |-> compact,
                  iteration |-> 0,
                  pairs |-> <<>>,
                  output |-> <<>>,
                  phasing_output |-> <<>>]
        /\ call = [op |-> variant, pos1 |-> 0, pos2 |-> 0]
        /\ eds = NoInstance
        /\ ret = NoRet

Raise(r) ==
    /\ ret' = Throw(r.error, r.what)
    /\ drv' = [drv EXCEPT !.pc = "error"]
    /\ UNCHANGED <<eds, call>>

(* lines 322-327 and 388-397: the check of the floor and the load *)
DriverLoad ==
    /\ drv.pc = "start"
    /\ IF drv.context_length = 0
       THEN Raise(Throw("invalid_argument",
                        <<"context_length must be > 0 for l-EDS transformation">>))
       ELSE \E loaded \in {IF call.op = "eds_to_leds_linear"
                           THEN linear_load(drv.input, drv.phasing_input)
                           ELSE EDS_from_string(drv.input)} :
               IF ~loaded.ok THEN Raise(loaded)
               ELSE IF call.op = "eds_to_leds_cartesian" /\ loaded.eds.has_sources
               THEN Raise(Throw("invalid_argument",
                                <<"Cartesian mode cannot be used with source files">>))
               ELSE /\ eds' = loaded.eds
                    /\ drv' = [drv EXCEPT !.pc = "loop"]
                    /\ UNCHANGED <<ret, call>>

(* lines 352-358 and 414-417: the wave on the selected pairs *)
Wave(pairs) ==
    \E merge_results \in {merge_multiple_pairs(eds, pairs, 0, <<>>)} :
        IF ~merge_results.ok THEN Raise(merge_results)
        ELSE \E rebuilt \in {reconstruct_eds(eds, merge_results.results)} :
                IF ~rebuilt.ok THEN Raise(rebuilt)
                ELSE /\ eds' = rebuilt.eds
                     /\ drv' = [drv EXCEPT !.iteration = @ + 1, !.pairs = pairs]
                     /\ UNCHANGED <<ret, call>>

(* one pass of the loop, lines 337-359 and 403-418 *)
DriverWave ==
    /\ drv.pc = "loop"
    /\ drv.iteration < MAX_ITERATIONS
    /\ IF is_leds(eds, drv.context_length)
       THEN /\ drv' = [drv EXCEPT !.pc = "after"]
            /\ UNCHANGED <<eds, ret, call>>
       ELSE \E pairs \in {select_independent_merge_pairs(eds, drv.context_length)} :
               IF pairs = <<>>
               THEN /\ drv' = [drv EXCEPT !.pc = "after", !.pairs = pairs]
                    /\ UNCHANGED <<eds, ret, call>>
               ELSE Wave(pairs)

(* after the loop, lines 361-372 and 420-425 *)
DriverFinish ==
    /\ \/ drv.pc = "after"
       \/ drv.pc = "loop" /\ drv.iteration >= MAX_ITERATIONS
    /\ IF drv.iteration >= MAX_ITERATIONS
       THEN Raise(Throw("runtime_error",
                        <<"Maximum iterations reached without convergence">>))
       ELSE \E saved \in {save(eds, IF drv.compact THEN "COMPACT" ELSE "FULL")} :
               IF ~saved.ok THEN Raise(saved)
               ELSE /\ drv' = [drv EXCEPT
                                 !.pc = "done",
                                 !.output = saved.os,
                                 !.phasing_output =
                                     IF call.op = "eds_to_leds_linear" /\ eds.has_sources
                                     THEN save_sources(eds).os ELSE <<>>]
                    /\ ret' = [ok |-> TRUE]
                    /\ UNCHANGED <<eds, call>>

NextDriver ==
    \/ DriverLoad
    \/ DriverWave
    \/ DriverFinish

SpecDriver == InitDriver /\ [][NextDriver]_vars

----------------------------------------------------------------------------
(* Properties of the driver level *)

(* the EDS the driver was given, and the EDS read back from its output *)
InputEDS == EDS_from_string(drv.input)

OutputEDS == EDS_from_string(drv.output).eds

Returned == drv.pc = "done"

NoConvergence ==
    /\ drv.pc = "error"
    /\ ret.error = "runtime_error"
    /\ ret.what = <<"Maximum iterations reached without convergence">>

Degenerate(e, i) == At(e.symbol_sizes, i) >= 2

(* an internal common block shorter than the floor *)
ShortInternal(e, i, L) ==
    /\ ~Degenerate(e, i)
    /\ 0 < i /\ i < e.n - 1
    /\ LengthsOf(e, i)[1] < L

IsLEDS(e, L) ==
    /\ \A i \in 0..(e.n - 1) : ~ShortInternal(e, i, L)
    /\ \A i \in 0..(e.n - 2) : ~(Degenerate(e, i) /\ Degenerate(e, i + 1))

Admissible(e, i, L) ==
    \/ ShortInternal(e, i, L)
    \/ ShortInternal(e, i + 1, L)
    \/ Degenerate(e, i) /\ Degenerate(e, i + 1)

NoAdmissiblePair(e, L) == \A i \in 0..(e.n - 2) : ~Admissible(e, i, L)

Converged(e) ==
    /\ IsLEDS(e, drv.context_length) \/ NoAdmissiblePair(e, drv.context_length)
    /\ e.n <= InputEDS.eds.n

(* C6: when a driver returns normally on E with floor L >= 1, its result   *)
(* E' (the instance saved, and the output read back) satisfies the         *)
(* predicate or has no admissible pair, and n(E') <= n(E).                 *)
C6_Convergence ==
    Returned =>
        /\ drv.context_length >= 1
        /\ Converged(eds)
        /\ Converged(OutputEDS)

(* a linear run returned after two waves *)
C6_Witness ==
    /\ Returned
    /\ drv.iteration >= 2
    /\ eds.has_sources
    /\ eds.n < InputEDS.eds.n
    /\ IsLEDS(eds, drv.context_length)

(* C7: a wave that selects pairs gives an EDS with as many symbols fewer   *)
(* as pairs were selected, so strictly fewer; the number of waves never    *)
(* exceeds the number of symbols of the driver's input.                    *)
C7_WaveDecreases ==
    [][ (drv.pc = "loop" /\ drv'.iteration = drv.iteration + 1) =>
           /\ drv'.pairs # <<>>
           /\ eds'.n = eds.n - Len(drv'.pairs)
           /\ eds'.n < eds.n
           /\ drv'.iteration <= InputEDS.eds.n ]_vars

(* the first wave merged two pairs *)
C7_Witness ==
    /\ drv.pc = "loop"
    /\ drv.iteration = 1
    /\ Len(drv.pairs) = 2
    /\ eds.n = InputEDS.eds.n - 2

ScenarioRun ==
    /\ drv.input = FullText(ScenarioSymbols)
    /\ drv.context_length = ScenarioFloor

AGTC == <<"A", "G", "T", "C">>

TATA == <<"T", "A", "T", "A">>

TC == <<"T", "C">>

TA == <<"T", "A">>

CCTC == <<"C", "C", "T", "C">>

CCTA == <<"C", "C", "T", "A">>

Range(v) == {v[k] : k \in 1..Len(v)}

(* C9 as claimed: on {AGTC}{,CC}{T}{C,A}{TATA} with L = 4 the driver       *)
(* yields {AGTC}, one degenerate symbol of exactly TC, CCTA and TA, and    *)
(* {TATA}, and the predicate holds.                                        *)
C9_AsClaimed ==
    (ScenarioRun /\ Returned) =>
        /\ IsLEDS(eds, ScenarioFloor)
        /\ eds.n = 3
        /\ At(eds.sets, 0) = <<AGTC>>
        /\ Range(At(eds.sets, 1)) = {TC, CCTA, TA}
        /\ At(eds.sets, 2) = <<TATA>>

(* C9, amended: on that input with L = 4 the driver returns, the predicate *)
(* holds and the result is {AGTC}, one degenerate symbol and {TATA}; the   *)
(* degenerate symbol is TC, TA, CCTA (sources {1}, {3}, {2}) when the      *)
(* linear driver is given the sources {0}{1,3}{2}{0}{1}{2,3}{0}, and the   *)
(* whole product TC, TA, CCTC, CCTA when no sources are given.             *)
C9_Scenario ==
    ScenarioRun =>
        /\ drv.pc # "error"
        /\ Returned =>
              /\ IsLEDS(eds, ScenarioFloor)
              /\ eds.n = 3
              /\ At(eds.sets, 0) = <<AGTC>>
              /\ At(eds.sets, 2) = <<TATA>>
              /\ IF drv.phasing_input = NoSources
                 THEN /\ At(eds.sets, 1) = <<TC, TA, CCTC, CCTA>>
                      /\ OutputEDS.sets = eds.sets
                 ELSE /\ At(eds.sets, 1) = <<TC, TA, CCTA>>
                      /\ eds.sources = <<{0}, {1}, {3}, {2}, {0}>>
                      /\ OutputEDS.sets = eds.sets
                      /\ drv.phasing_output =
                            SourcesText(<<{0}, {1}, {3}, {2}, {0}>>) \o <<"\n">>

(* the linear driver returned on the scenario with its sources *)
C9_Witness ==
    /\ ScenarioRun /\ Returned
    /\ call.op = "eds_to_leds_linear"
    /\ drv.phasing_input # NoSources
    /\ drv.iteration = 2

Loaded == drv.pc \in {"loop", "after", "done"}

(* number of paths through the symbols: the product of the symbol sizes *)
RECURSIVE Product(_)
Product(v) == IF v = <<>> THEN 1 ELSE v[1] * Product(Tail(v))

(* C10 as claimed: the cartesian driver fails on an EDS with sources, and  *)
(* the linear driver fails when no sources are supplied.                   *)
C10_AsClaimed ==
    /\ (call.op = "eds_to_leds_cartesian" /\ eds.has_sources) => drv.pc = "error"
    /\ (call.op = "eds_to_leds_linear" /\ drv.phasing_input = NoSources) =>
          drv.pc \in {"start", "error"}

(* C10, amended: the cartesian driver never holds an EDS with sources and  *)
(* never raises its refusal; the linear driver without a phasing input     *)
(* loads the EDS without sources and merges by cartesian product (the      *)
(* product of the symbol sizes is kept), failing only on a floor of 0, an  *)
(* input that does not parse or the iteration limit; with a phasing input  *)
(* it holds the sources.                                                   *)
C10_ModeRestriction ==
    /\ call.op = "eds_to_leds_cartesian" =>
          /\ ~eds.has_sources
          /\ drv.pc = "error" =>
                ret.what # <<"Cartesian mode cannot be used with source files">>
    /\ (call.op = "eds_to_leds_linear" /\ drv.phasing_input = NoSources) =>
          /\ ~eds.has_sources
          /\ Loaded => Product(eds.symbol_sizes) = Product(InputEDS.eds.symbol_sizes)
          /\ drv.pc = "error" =>
                \/ drv.context_length = 0
                \/ ~InputEDS.ok
                \/ NoConvergence
    /\ (call.op = "eds_to_leds_linear" /\ drv.phasing_input # NoSources /\ Loaded) =>
          eds.has_sources

(* the linear driver, given no sources, returned a symbol that is the      *)
(* product of two degenerate symbols                                       *)
C10_Witness ==
    /\ call.op = "eds_to_leds_linear"
    /\ drv.phasing_input = NoSources
    /\ Returned
    /\ drv.iteration >= 1
    /\ \E i \in 0..(eds.n - 1) : At(eds.symbol_sizes, i) = 4

----------------------------------------------------------------------------
(* The source algebra: the intersection of merge_adjacent and the step of  *)
(* calculate_path_intersection, applied to well-formed source sets         *)

MaxId == 3

Universal == {0}

(* the well-formed source sets: {0}, or a non-empty set of positive ids *)
WellFormed == {Universal} \cup (SUBSET (1..MaxId) \ {{}})

(* the step of calculate_path_intersection without the universal marker *)
path_intersection_plain(intersection, current_sources) ==
    intersection \cap current_sources

(* the step of calculate_path_intersection (lines 1378-1402): the          *)
(* accumulated intersection with the sources of the next string            *)
path_intersection_step(intersection, current_sources) ==
    LET current_has_universal == 0 \in current_sources
        accum_has_universal == 0 \in intersection
    IN  IF current_has_universal /\ accum_has_universal THEN {0}
        ELSE IF current_has_universal THEN intersection
        ELSE IF accum_has_universal THEN current_sources
        ELSE intersection \cap current_sources

Implementations == {"merge_adjacent", "calculate_path_intersection"}

InitAlgebra ==
    \E S \in WellFormed, T \in WellFormed, V \in WellFormed :
        /\ call = [op |-> "none", S |-> S, T |-> T, V |-> V]
        /\ ret = NoRet
        /\ eds = NoInstance
        /\ drv = [pc |-> "algebra"]

(* the intersections of the claim, computed by one implementation *)
Intersections(cap(_, _), S, T, V) ==
    [ok |-> TRUE,
     uu |-> cap(Universal, Universal),
     us |-> cap(Universal, S),
     su |-> cap(S, Universal),
     st |-> cap(S, T),
     ts |-> cap(T, S),
     st_v |-> cap(cap(S, T), V),
     s_tv |-> cap(S, cap(T, V))]

IntersectMerge ==
    /\ call.op = "none"
    /\ call' = [call EXCEPT !.op = "merge_adjacent"]
    /\ ret' = Intersections(source_intersection, call.S, call.T, call.V)
    /\ UNCHANGED <<eds, drv>>

IntersectPath ==
    /\ call.op = "none"
    /\ call' = [call EXCEPT !.op = "calculate_path_intersection"]
    /\ ret' = Intersections(path_intersection_step, call.S, call.T, call.V)
    /\ UNCHANGED <<eds, drv>>

NextAlgebra ==
    \/ IntersectMerge
    \/ IntersectPath

SpecAlgebra == InitAlgebra /\ [][NextAlgebra]_vars

(* C11: for the universal set U = {0} and well-formed source sets S, T, V  *)
(* the intersection of merge_adjacent and of check_position gives          *)
(* U /\ U = U, U /\ S = S /\ U = S, the ordinary intersection when neither *)
(* set is U, S /\ T = T /\ S, and (S /\ T) /\ V = S /\ (T /\ V), also when *)
(* an intermediate result is empty.                                        *)
C11_SourceAlgebra ==
    call.op \in Implementations =>
        /\ ret.uu = Universal
        /\ ret.us = call.S
        /\ ret.su = call.S
        /\ (call.S # Universal /\ call.T # Universal) => ret.st = call.S \cap call.T
        /\ ret.st = ret.ts
        /\ ret.st_v = ret.s_tv

(* both implementations applied with an empty intermediate result and the  *)
(* universal set as the third operand                                      *)
C11_Witness ==
    /\ call.op \in Implementations
    /\ call.S # Universal
    /\ call.T # Universal
    /\ call.V = Universal
    /\ ret.st = {}
    /\ ret.st_v = {}

----------------------------------------------------------------------------
(* EDS::check_position and its helpers.  An operation that reads past the  *)
(* end of a vector has undefined behaviour: it is given the set of its     *)
(* possible outcomes, and so is every operation that calls it.             *)

(* the process is stopped (a read outside the allocated storage) *)
Fault == [ok |-> FALSE, error |-> "fault", what |-> <<"undefined behaviour">>]

(* std::upper_bound on a sorted vector: the index of the first element     *)
(* greater than value, the size when there is none                         *)
RECURSIVE upper_bound(_, _, _)
upper_bound(v, value, i) ==
    IF i < Len(v) /\ At(v, i) <= value THEN upper_bound(v, value, i + 1) ELSE i

(* find_symbol_at_common_position with symbol_idx = n: is_degenerate[n],   *)
(* cum_set_sizes[n] and string_lengths[...] are read past the end          *)
find_symbol_past_end(e, common_pos) ==
    { Throw("out_of_range", <<"Common position points to degenerate symbol">>),
      Throw("out_of_range", <<"Offset exceeds symbol length">>),
      [ok |-> TRUE, symbol_idx |-> e.n,
       offset |-> common_pos - At(e.cum_common_positions, e.n)],
      Fault }

(* EDS::find_symbol_at_common_position *)
find_symbol_at_common_position(e, common_pos) ==
    LET it == upper_bound(e.cum_common_positions, common_pos, 0) IN
    IF it = 0
    THEN {Throw("out_of_range", <<"Common position is before EDS start">>)}
    ELSE LET symbol_idx == it - 1 IN
         IF symbol_idx >= Len(e.is_degenerate)
         THEN find_symbol_past_end(e, common_pos)
         ELSE IF At(e.is_degenerate, symbol_idx)
         THEN {Throw("out_of_range", <<"Common position points to degenerate symbol">>)}
         ELSE LET offset_out == common_pos - At(e.cum_common_positions, symbol_idx)
                  global_string_idx == At(e.cum_set_sizes, symbol_idx)
                  symbol_length == At(e.string_lengths, global_string_idx)
              IN  IF offset_out >= symbol_length
                  THEN {Throw("out_of_range", <<"Offset exceeds symbol length">>)}
                  ELSE {[ok |-> TRUE, symbol_idx |-> symbol_idx, offset |-> offset_out]}

(* decode_degenerate_string_number with symbol_idx = n: is_degenerate[n]   *)
(* and symbol_sizes[n] are read past the end                               *)
decode_past_end(e, abs_string_num) ==
    { Throw("runtime_error", <<"Internal error: maps to non-degenerate symbol">>),
      Throw("out_of_range", <<"Local index out of range">>),
      [ok |-> TRUE, symbol_idx |-> e.n,
       local_idx |-> abs_string_num - At(e.cum_degenerate_counts, e.n)],
      Fault }

(* EDS::decode_degenerate_string_number *)
decode_degenerate_string_number(e, abs_string_num) ==
    IF abs_string_num < 0
    THEN {Throw("invalid_argument", <<"Degenerate string number must be non-negative">>)}
    ELSE LET it == upper_bound(e.cum_degenerate_counts, abs_string_num, 0) IN
         IF it = 0
         THEN {Throw("out_of_range", <<"Invalid degenerate string number">>)}
         ELSE LET symbol_idx == it - 1 IN
              IF symbol_idx >= Len(e.is_degenerate)
              THEN decode_past_end(e, abs_string_num)
              ELSE IF ~At(e.is_degenerate, symbol_idx)
              THEN {Throw("runtime_error",
                          <<"Internal error: maps to non-degenerate symbol">>)}
              ELSE LET local_idx == abs_string_num
                                    - At(e.cum_degenerate_counts, symbol_idx)
                   IN  IF local_idx >= At(e.symbol_sizes, symbol_idx)
                       THEN {Throw("out_of_range", <<"Local index out of range">>)}
                       ELSE {[ok |-> TRUE, symbol_idx |-> symbol_idx,
                              local_idx |-> local_idx]}

(* std::min *)
Min2(a, b) == IF b < a THEN b ELSE a

(* s.substr(pos) and s.substr(0, count) *)
substr_from(s, pos) == SubSeq(s, pos + 1, Len(s))

substr_to(s, count) == SubSeq(s, 1, Min2(count, Len(s)))

(* the outcome "returns value" *)
Return(value) == [ok |-> TRUE, value |-> value]

(* EDS::calculate_path_intersection, the loop (lines 1316-1415); acc holds *)
(* first and intersection.  path_loop is the head of one pass up to the    *)
(* choice of global_string_idx, path_tail the rest of the pass.            *)
RECURSIVE path_loop(_, _, _, _, _, _, _, _, _)
RECURSIVE path_tail(_, _, _, _, _, _, _, _, _, _)
path_loop(e, start_symbol, offset_in_symbol, degenerate_strings, pattern_length, symbol_idx, deg_idx, chars_counted, acc) ==
    IF ~(symbol_idx < e.n /\ chars_counted < pattern_length)
    THEN {Return(acc.intersection)}
    ELSE IF At(e.is_degenerate, symbol_idx)
    THEN IF deg_idx >= Len(degenerate_strings)
         THEN {Throw("invalid_argument",
                     <<"Not enough degenerate strings for path intersection calculation">>)}
         ELSE UNION {
                IF ~dec.ok THEN {dec}
                ELSE IF dec.symbol_idx # symbol_idx
                THEN {Throw("invalid_argument",
                            <<"Degenerate string mismatch in path intersection calculation">>)}
                ELSE path_tail(e, start_symbol, offset_in_symbol, degenerate_strings,
                               pattern_length, symbol_idx, deg_idx + 1, chars_counted, acc,
                               At(e.cum_set_sizes, symbol_idx) + dec.local_idx)
                : dec \in decode_degenerate_string_number(
                              e, At(degenerate_strings, deg_idx)) }
    ELSE LET global_string_idx == At(e.cum_set_sizes, symbol_idx)
             sym_len == At(e.string_lengths, global_string_idx)
         IN  IF symbol_idx = start_symbol /\ offset_in_symbol > 0
             THEN IF offset_in_symbol >= sym_len
                  THEN {Return({})}
                  ELSE path_tail(e, start_symbol, offset_in_symbol, degenerate_strings,
                                 pattern_length, symbol_idx, deg_idx,
                                 chars_counted + Min2(sym_len - offset_in_symbol,
                                                      pattern_length - chars_counted),
                                 acc, global_string_idx)
             ELSE path_tail(e, start_symbol, offset_in_symbol, degenerate_strings,
                            pattern_length, symbol_idx, deg_idx,
                            chars_counted + Min2(sym_len, pattern_length - chars_counted),
                            acc, global_string_idx)

path_tail(e, start_symbol, offset_in_symbol, degenerate_strings, pattern_length, symbol_idx, deg_idx, chars_counted, acc, global_string_idx) ==
    IF global_string_idx >= Len(e.sources)
    THEN {Throw("runtime_error", <<"String ID out of range for sources">>)}
    ELSE LET current_sources == At(e.sources, global_string_idx)
             intersection == IF acc.first THEN current_sources
                             ELSE path_intersection_step(acc.intersection,
                                                         current_sources)
         IN  IF intersection = {}
             THEN {Return({})}
             ELSE path_loop(e, start_symbol, offset_in_symbol, degenerate_strings,
                            pattern_length, symbol_idx + 1, deg_idx,
                            IF At(e.is_degenerate, symbol_idx)
                            THEN chars_counted
                                 + Min2(At(e.string_lengths, global_string_idx),
                                        pattern_length - chars_counted)
                            ELSE chars_counted,
                            [first |-> FALSE, intersection |-> intersection])

(* EDS::calculate_path_intersection *)
calculate_path_intersection(e, start_symbol, offset_in_symbol, degenerate_strings, pattern_length) ==
    IF ~e.has_sources THEN {Return({0})}
    ELSE path_loop(e, start_symbol, offset_in_symbol, degenerate_strings,
                   pattern_length, start_symbol, 0, 0,
                   [first |-> TRUE, intersection |-> {}])

(* the loop of reconstruct_from_memory (lines 1151-1206) and, with         *)
(* from_file, of reconstruct_from_file (lines 1222-1294); st holds deg_idx,*)
(* first_symbol and result.  reconstruct_take is the end of one pass.      *)
RECURSIVE reconstruct_loop(_, _, _, _, _, _, _)
RECURSIVE reconstruct_take(_, _, _, _, _, _, _, _)
reconstruct_loop(e, from_file, offset_in_symbol, degenerate_strings, pattern_length, symbol_idx, st) ==
    IF ~(symbol_idx < e.n /\ Len(st.result) < pattern_length)
    THEN {Return(st.result)}
    ELSE LET symbol_strings == IF from_file THEN read_symbol(e, symbol_idx)
                               ELSE Return(At(e.sets, symbol_idx))
         IN
         IF ~symbol_strings.ok THEN {symbol_strings}
         ELSE IF At(e.is_degenerate, symbol_idx)
         THEN IF st.deg_idx >= Len(degenerate_strings)
              THEN {Throw("invalid_argument",
                          <<"Not enough degenerate strings provided">>)}
              ELSE UNION {
                     IF ~dec.ok THEN {dec}
                     ELSE IF dec.symbol_idx # symbol_idx
                     THEN {Throw("invalid_argument",
                                 <<"Degenerate string belongs to another symbol">>)}
                     ELSE IF from_file /\ dec.local_idx >= Len(symbol_strings.value)
                     THEN {Throw("runtime_error", <<"Local index out of range for symbol">>)}
                     ELSE reconstruct_take(e, from_file, offset_in_symbol,
                                           degenerate_strings, pattern_length, symbol_idx,
                                           [st EXCEPT !.deg_idx = @ + 1],
                                           At(symbol_strings.value, dec.local_idx))
                     : dec \in decode_degenerate_string_number(
                                   e, At(degenerate_strings, st.deg_idx)) }
         ELSE IF from_file /\ symbol_strings.value = <<>>
         THEN {Throw("runtime_error", <<"Common symbol is empty">>)}
         ELSE LET str == At(symbol_strings.value, 0) IN
              IF st.first_symbol /\ offset_in_symbol > 0
              THEN IF offset_in_symbol >= Len(str)
                   THEN {Throw("out_of_range", <<"Offset exceeds symbol length">>)}
                   ELSE reconstruct_take(e, from_file, offset_in_symbol,
                                         degenerate_strings, pattern_length, symbol_idx,
                                         [st EXCEPT !.first_symbol = FALSE],
                                         substr_from(str, offset_in_symbol))
              ELSE reconstruct_take(e, from_file, offset_in_symbol, degenerate_strings,
                                    pattern_length, symbol_idx, st, str)

reconstruct_take(e, from_file, offset_in_symbol, degenerate_strings, pattern_length, symbol_idx, st, str) ==
    LET chars_to_take == Min2(Len(str), pattern_length - Len(st.result)) IN
    reconstruct_loop(e, from_file, offset_in_symbol, degenerate_strings, pattern_length,
                     symbol_idx + 1,
                     [st EXCEPT !.result = @ \o substr_to(str, chars_to_take)])

(* EDS::reconstruct_from_memory *)
reconstruct_from_memory(e, start_symbol, offset_in_symbol, degenerate_strings, pattern_length) ==
    reconstruct_loop(e, FALSE, offset_in_symbol, degenerate_strings, pattern_length,
                     start_symbol,
                     [deg_idx |-> 0, first_symbol |-> TRUE, result |-> <<>>])

(* EDS::reconstruct_from_file *)
reconstruct_from_file(e, start_symbol, offset_in_symbol, degenerate_strings, pattern_length) ==
    reconstruct_loop(e, TRUE, offset_in_symbol, degenerate_strings, pattern_length,
                     start_symbol,
                     [deg_idx |-> 0, first_symbol |-> TRUE, result |-> <<>>])

(* check_position from the source validation on (lines 1001-1047) *)
check_from(e, start_symbol, offset_in_symbol, degenerate_strings, pattern) ==
    UNION {
      IF ~paths.ok THEN {paths}
      ELSE IF e.has_sources /\ paths.value = {}
      THEN {Return(FALSE)}
      ELSE { IF ~reconstructed.ok THEN reconstructed
             ELSE IF Len(reconstructed.value) < Len(pattern) THEN Return(FALSE)
             ELSE Return(reconstructed.value = pattern)
             : reconstructed \in
                 IF e.mode = "FULL"
                 THEN reconstruct_from_memory(e, start_symbol, offset_in_symbol,
                                              degenerate_strings, Len(pattern))
                 ELSE reconstruct_from_file(e, start_symbol, offset_in_symbol,
                                            degenerate_strings, Len(pattern)) }
      : paths \in calculate_path_intersection(e, start_symbol, offset_in_symbol,
                                              degenerate_strings, Len(pattern)) }

(* EDS::check_position; the count of the degenerate symbols ahead (lines   *)
(* 977-999) only writes a warning and is left out                          *)
check_position(e, common_pos, degenerate_strings, pattern) ==
    IF e.is_empty \/ e.n = 0 THEN {Return(FALSE)}
    ELSE IF pattern = <<>> THEN {Return(TRUE)}
    ELSE UNION {
           IF ~found.ok
           THEN (IF found.error = "out_of_range" THEN {Return(FALSE)} ELSE {found})
           ELSE check_from(e, found.symbol_idx, found.offset, degenerate_strings, pattern)
           : found \in find_symbol_at_common_position(e, common_pos) }

----------------------------------------------------------------------------
(* The query level: an instance is constructed from a text (a file in      *)
(* METADATA_ONLY mode) and an optional source text, and one query is made  *)
(* on it: check_position, read_symbol, or save in compact form followed by *)
(* a parse of the saved text.                                              *)

QueryMaxCard == 3

MaxP == 2

MaxPattern == 2

(* the EDS of the tests of check_position (test_eds.cpp) and its sources *)
ExampleSymbols ==
    << << <<"A", "C", "G", "T">> >>,
       << <<"A">>, <<"A", "C", "A">> >>,
       << <<"C", "G", "T">> >>,
       << <<"T">>, <<"T", "G">> >> >>

ExampleSources == <<{0}, {1, 3}, {2}, {0}, {1}, {2, 3}>>

ACG == <<"A", "C", "G">>

ACGTT == <<"A", "C", "G", "T", "T">>

ACACGTT == <<"A", "C", "A", "C", "G", "T", "T">>

CGTT == <<"C", "G", "T", "T">>

(* {A}, a run of blanks as long as a symbol, {C}{A} *)
ShiftedText ==
    <<SET_OPEN, "A", SET_CLOSE, " ", " ", " ",
      SET_OPEN, "C", SET_CLOSE, SET_OPEN, "A", SET_CLOSE>>

(* {A}{C}{A,C}, its strings from the disjoint paths 1, 2, 1, 1 *)
DisjointSymbols == << << <<"A">> >>, << <<"C">> >>, << <<"A">>, <<"C">> >> >>

DisjointSources == <<{1}, {2}, {1}, {1}>>

(* texts that are not EDS texts *)
MalformedTexts ==
    { <<SET_OPEN, "A">>,
      <<"A", SET_CLOSE>>,
      <<SET_OPEN, "A", SET_CLOSE, SET_CLOSE>>,
      <<SET_OPEN, SET_OPEN, "A", SET_CLOSE>>,
      <<SET_OPEN, "A", SET_CLOSE, SET_OPEN>> }

(* source texts that are not source texts of the EDS {A}{C}{A,C} *)
MalformedSources ==
    { <<SET_OPEN, SET_CLOSE>> \o SourcesText(Tail(DisjointSources)),
      <<SET_OPEN, "1">>,
      <<"1", SET_CLOSE>>,
      <<SET_OPEN, "A", SET_CLOSE>>,
      SourcesText(SubSeq(DisjointSources, 1, 3)) }

QueryInput(kind, text, seds, mode) ==
    [kind |-> kind, text |-> text, seds |-> seds, mode |-> mode]

QueryInputs ==
    UNION {{QueryInput("generated", load[1], load[2], load[3]) : load \in Loads(symbols)}
           \cup {QueryInput("generated", text, NoSources, "METADATA_ONLY") :
                   text \in {CompactText(symbols), SpacedText(symbols)}}
           : symbols \in SymbolSeqs(Strings, QueryMaxCard)}
    \cup {QueryInput("example", FullText(ExampleSymbols), seds, mode) :
            seds \in {NoSources, SourcesText(ExampleSources)}, mode \in Modes}
    \cup {QueryInput("scenario", ShiftedText, NoSources, mode) : mode \in Modes}
    \cup {QueryInput("scenario", FullText(DisjointSymbols), seds, mode) :
            seds \in {NoSources, SourcesText(DisjointSources)}, mode \in Modes}
    \cup {QueryInput("malformed", text, NoSources, mode) :
            text \in MalformedTexts, mode \in Modes}
    \cup {QueryInput("malformed", FullText(DisjointSymbols), seds, "FULL") :
            seds \in MalformedSources}

InitQuery ==
    \E in \in QueryInputs :
        /\ drv = [pc |-> "new", kind |-> in.kind, text |-> in.text,
                  seds |-> in.seds, mode |-> in.mode]
        /\ eds = NoInstance
        /\ call = NoCall
        /\ ret = NoRet

(* the construction: a constructor or EDS::load *)
QueryLoad ==
    /\ drv.pc = "new"
    /\ \E c \in {Construct(drv.text, drv.seds, drv.mode)} :
          IF c.ok
          THEN /\ eds' = c.eds
               /\ ret' = [ok |-> TRUE]
               /\ drv' = [drv EXCEPT !.pc = "ready"]
          ELSE /\ ret' = c
               /\ drv' = [drv EXCEPT !.pc = "failed"]
               /\ UNCHANGED eds
    /\ UNCHANGED call

(* the sequences over S of length at most k *)
SeqsUpTo(S, k) == UNION {[1..len -> S] : len \in 0..k}

(* the arguments of the calls of check_position made on an input *)
Positions(kind) ==
    CASE kind = "example" -> {0, 4, 100}
      [] OTHER -> 0..MaxP

DegenerateChoices(kind) ==
    CASE kind = "example" -> {<<>>, <<0>>, <<0, 2>>, <<1, 2>>, <<0, 999>>}
      [] kind = "scenario" -> {<<>>, <<0>>, <<2>>}
      [] OTHER -> {<<>>, <<0, 0>>, <<1, QueryMaxCard>>}
                  \cup {<<id>> : id \in -1..QueryMaxCard}

Patterns(kind) ==
    CASE kind = "example" -> {ACG, ACGTT, ACACGTT, CGTT}
      [] kind = "scenario" -> {<<"A">>, <<"C">>, <<"A", "C", "A">>}
      [] OTHER -> SeqsUpTo({"A", "C"}, MaxPattern)

(* a call eds.check_position(common_pos, degenerate_strings, pattern) *)
CheckPosition(common_pos, degenerate_strings, pattern) ==
    /\ drv.pc = "ready"
    /\ call.op = "none"
    /\ \E outcome \in check_position(eds, common_pos, degenerate_strings, pattern) :
          ret' = outcome
    /\ call' = [op |-> "check_position", pos1 |-> common_pos, pos2 |-> 0,
                degenerate_strings |-> degenerate_strings, pattern |-> pattern]
    /\ UNCHANGED <<eds, drv>>

(* a call eds.read_symbol(pos) *)
ReadSymbol(pos) ==
    /\ drv.pc = "ready"
    /\ call.op = "none"
    /\ ret' = read_symbol(eds, pos)
    /\ call' = [op |-> "read_symbol", pos1 |-> pos, pos2 |-> 0]
    /\ UNCHANGED <<eds, drv>>

(* eds.save(saved, OutputFormat::COMPACT); EDS eds2(saved.str()) *)
RoundTripCompact ==
    /\ drv.pc = "ready"
    /\ call.op = "none"
    /\ \E saved \in {save(eds, "COMPACT")} :
          ret' = IF saved.ok THEN EDS_from_string(saved.os) ELSE saved
    /\ call' = [op |-> "roundtrip_compact", pos1 |-> 0, pos2 |-> 0]
    /\ UNCHANGED <<eds, drv>>

NextQuery ==
    \/ QueryLoad
    \/ \E common_pos \in Positions(drv.kind) :
         \E degenerate_strings \in DegenerateChoices(drv.kind) :
           \E pattern \in Patterns(drv.kind) :
              CheckPosition(common_pos, degenerate_strings, pattern)
    \/ \E pos \in 0..QueryMaxCard : ReadSymbol(pos)
    \/ RoundTripCompact

SpecQuery == InitQuery /\ [][NextQuery]_vars

----------------------------------------------------------------------------
(* Properties of the query level *)

CheckPositionCalled == drv.pc = "ready" /\ call.op = "check_position"

Returns(value) == ret.ok /\ ret.value = value

Raises == ~ret.ok /\ ret.error # "fault"

(* C12 as claimed: on {ACGT}{A,ACA}{CGT}{T,TG} with the sources            *)
(* {0}{1,3}{2}{0}{1}{2,3}, check_position(4, [0,2], "ACGTT") returns true  *)
(* and check_position(4, [1,2], "ACACGTT") returns false: the common       *)
(* position 4, the number of common characters before the degenerate       *)
(* symbol 1, starts the reading at that symbol.                            *)
C12_AsClaimed ==
    (/\ CheckPositionCalled
     /\ drv.kind = "example"
     /\ drv.seds # NoSources
     /\ call.pos1 = 4) =>
        /\ (call.degenerate_strings = <<0, 2>> /\ call.pattern = ACGTT)
               => Returns(TRUE)
        /\ (call.degenerate_strings = <<1, 2>> /\ call.pattern = ACACGTT)
               => Returns(FALSE)

(* The EDS a text denotes: its symbols with all their strings, whatever    *)
(* the storing mode of the instance under query.                           *)
DenotedSets == EDS_from_string(drv.text).eds.sets

(* common characters, and strings of degenerate symbols, before symbol k *)
CommonBefore(sets, k) ==
    SumSeq([i \in 1..k |-> IF Len(sets[i]) >= 2 THEN 0 ELSE Len(sets[i][1])])

DegenerateBefore(sets, k) ==
    SumSeq([i \in 1..k |-> IF Len(sets[i]) >= 2 THEN Len(sets[i]) ELSE 0])

(* the starts <<symbol, offset>> a common position p determines: inside a  *)
(* non-degenerate symbol, or at a degenerate symbol that p common          *)
(* characters precede                                                     *)
StartsAt(sets, p) ==
    {s \in (0..(Len(sets) - 1)) \X (0..p) :
        IF Len(sets[s[1] + 1]) >= 2
        THEN s[2] = 0 /\ CommonBefore(sets, s[1]) = p
        ELSE /\ CommonBefore(sets, s[1]) + s[2] = p
             /\ s[2] < Len(sets[s[1] + 1][1])}

(* the reading of need characters from symbol k at offset off, the local   *)
(* indices of the degenerate symbols taken in order from d: whether d      *)
(* provides them, the text read, and the strings <<symbol, index>> used    *)
RECURSIVE Reading(_, _, _, _, _)
Reading(sets, k, off, d, need) ==
    IF need = 0 THEN [ok |-> TRUE, text |-> <<>>, used |-> {}]
    ELSE IF k >= Len(sets) THEN [ok |-> TRUE, text |-> <<>>, used |-> {}]
    ELSE LET degenerate == Len(sets[k + 1]) >= 2
             local == IF degenerate /\ d # <<>>
                      THEN d[1] - DegenerateBefore(sets, k) ELSE 0
         IN IF degenerate /\ (d = <<>> \/ local < 0 \/ local >= Len(sets[k + 1]))
            THEN [ok |-> FALSE, text |-> <<>>, used |-> {}]
            ELSE LET whole == sets[k + 1][local + 1]
                     cut == IF off >= Len(whole) THEN <<>>
                            ELSE SubSeq(whole, off + 1, Len(whole))
                     piece == IF Len(cut) > need THEN SubSeq(cut, 1, need) ELSE cut
                     rest == Reading(sets, k + 1, 0,
                                     IF degenerate THEN Tail(d) ELSE d,
                                     need - Len(piece))
                 IN [ok |-> rest.ok,
                     text |-> piece \o rest.text,
                     used |-> {<<k, local>>} \cup rest.used]

(* the source sets of the strings used have an id in common, a set with   *)
(* the id 0 standing for every id                                          *)
CommonSource(e, used) ==
    LET specific == {S \in {At(SourcesOf(e, u[1]), u[2]) : u \in used} : 0 \notin S}
    IN specific = {} \/ \E id \in UNION specific : \A S \in specific : id \in S

(* C13 as claimed: check_position(p, d, pattern) returns true only if a    *)
(* start symbol and offset determined by p and local indices taken in      *)
(* order from d read the pattern (first symbol cut at the offset, last     *)
(* symbol cut to the remaining need) and, when sources are present, the    *)
(* source sets of the alternatives read have a non-empty intersection.     *)
C13_AsClaimed ==
    (CheckPositionCalled /\ Returns(TRUE)) =>
        \E s \in StartsAt(DenotedSets, call.pos1) :
            LET r == Reading(DenotedSets, s[1], s[2],
                             call.degenerate_strings, Len(call.pattern))
            IN /\ r.ok
               /\ r.text = call.pattern
               /\ eds.has_sources => CommonSource(eds, r.used)

(* the start of a common position inside a non-degenerate symbol *)
CommonStarts(sets, p) == {s \in StartsAt(sets, p) : Len(sets[s[1] + 1]) = 1}

(* the number of entries of d the reading uses *)
EntriesUsed(sets, used) == Cardinality({u \in used : Len(sets[u[1] + 1]) >= 2})

(* d misused: the reading from the start of common_pos comes to a          *)
(* degenerate symbol for which d has no entry left, or an entry of another *)
(* symbol                                                                  *)
Misused(sets, common_pos, degenerate_strings, pattern) ==
    /\ pattern # <<>>
    /\ \E s \in CommonStarts(sets, common_pos) :
          ~Reading(sets, s[1], s[2], degenerate_strings, Len(pattern)).ok

(* d longer than the reading requires, and its entries used well chosen *)
LongerThanRequired(sets, common_pos, degenerate_strings, pattern) ==
    /\ pattern # <<>>
    /\ \E s \in CommonStarts(sets, common_pos) :
          LET r == Reading(sets, s[1], s[2], degenerate_strings, Len(pattern))
          IN r.ok /\ EntriesUsed(sets, r.used) < Len(degenerate_strings)

(* C14 as claimed: a call of check_position whose d is shorter than the    *)
(* degenerate symbols the reading of the pattern traverses, or has an      *)
(* entry of a symbol other than the one expected, raises an error, with    *)
(* or without sources, and never returns false; a d longer than required   *)
(* is ignored and the call does not fail.                                  *)
C14_AsClaimed ==
    CheckPositionCalled =>
        /\ Misused(DenotedSets, call.pos1, call.degenerate_strings, call.pattern)
              => Raises
        /\ LongerThanRequired(DenotedSets, call.pos1, call.degenerate_strings,
                              call.pattern)
              => ret.ok

(* a common position the EDS does not have: at or beyond the number of     *)
(* its common characters                                                   *)
NonExistent(sets, common_pos) == common_pos >= CommonBefore(sets, Len(sets))

(* C15 as claimed: for a non-empty pattern, check_position raises an       *)
(* error, and does not return false, when the common position p does not   *)
(* exist in the EDS (p at or beyond the total number of common             *)
(* characters, the offset past the length of the located symbol).          *)
C15_AsClaimed ==
    (/\ CheckPositionCalled
     /\ call.pattern # <<>>
     /\ ~eds.is_empty
     /\ NonExistent(DenotedSets, call.pos1)) => Raises

(* the full-mode instance built from the text and the sources of the       *)
(* instance under query                                                    *)
FullModeInstance == Construct(drv.text, drv.seds, "FULL").eds

ReadSymbolCalled == drv.pc = "ready" /\ call.op = "read_symbol"

(* C16 as claimed: for every well-formed text, with whitespace or in       *)
(* compact form too, and every i in [0,n), read_symbol(i) on the           *)
(* metadata-only instance loaded from the text returns the alternatives    *)
(* read_symbol(i) returns on the full-mode instance built from it, and     *)
(* check_position gives on it a result it gives in full mode.              *)
C16_AsClaimed ==
    /\ (ReadSymbolCalled /\ call.pos1 < eds.n) =>
          ret = read_symbol(FullModeInstance, call.pos1)
    /\ CheckPositionCalled =>
          ret \in check_position(FullModeInstance, call.pos1,
                                 call.degenerate_strings, call.pattern)

RoundTripCalled == drv.pc = "ready" /\ call.op = "roundtrip_compact"

(* C17 as claimed: for every full-mode EDS E, with two adjacent            *)
(* non-degenerate symbols or a non-degenerate symbol whose only            *)
(* alternative is empty too, parsing the compact serialization of E gives  *)
(* an instance with the n, m, symbol sizes and alternatives of E.          *)
C17_AsClaimed ==
    (RoundTripCalled /\ eds.mode = "FULL") =>
        /\ ret.ok
        /\ ret.eds.n = eds.n
        /\ ret.eds.m = eds.m
        /\ ret.eds.symbol_sizes = eds.symbol_sizes
        /\ ret.eds.sets = eds.sets

(* the construction has been attempted and no call made since *)
Constructed == drv.pc \in {"ready", "failed"} /\ call.op = "none"

(* a text with a symbol of zero alternatives, {} *)
ZeroAlternatives(text) ==
    \E i \in 1..(Len(text) - 1) : text[i] = SET_OPEN /\ text[i + 1] = SET_CLOSE

(* texts with a '{' missing where a symbol must start *)
MissingOpenTexts == { <<"A", SET_CLOSE>>, <<SET_OPEN, "A", SET_CLOSE, SET_CLOSE>> }

(* texts with a symbol not closed before the input ends *)
UnclosedTexts == { <<SET_OPEN, "A">>, <<SET_OPEN, "A", SET_CLOSE, SET_OPEN>> }

(* C18 as claimed: parsing an EDS text fails with an error and yields no   *)
(* instance when a '{' is missing where a symbol must start, when a        *)
(* symbol is not closed by '}' before the input ends, and when a symbol    *)
(* has zero alternatives (the text {}): no successful parse produces a     *)
(* symbol from {}.                                                         *)
C18_AsClaimed ==
    (/\ Constructed
     /\ \/ drv.text \in MissingOpenTexts \cup UnclosedTexts
        \/ ZeroAlternatives(drv.text)) =>
        /\ drv.pc = "failed"
        /\ ~ret.ok
        /\ eds = NoInstance

(* a source set of the two forms: the universal set, or positive ids only *)
SourceSetForm(S) == S = Universal \/ (S # {} /\ \A id \in S : id > 0)

(* C19 as claimed: source parsing rejects a group with the universal       *)
(* marker 0 and a positive path id, so after every successful source load  *)
(* each source set is exactly {0} or a non-empty set of positive ids.      *)
C19_AsClaimed ==
    (Constructed /\ drv.pc = "ready" /\ eds.has_sources) =>
        \A g \in 0..(Len(eds.sources) - 1) : SourceSetForm(At(eds.sources, g))

----------------------------------------------------------------------------
(* Statistics of an instance against the aggregates of its symbols *)

(* the lengths of the strings of the symbols chosen by degenerate *)
LengthsIn(e, degenerate) ==
    Flatten([k \in 1..e.n |->
               IF Degenerate(e, k - 1) = degenerate THEN LengthsOf(e, k - 1)
               ELSE <<>>])

MinOf(v) == IF v = <<>> THEN 0
            ELSE CHOOSE x \in Range(v) : \A y \in Range(v) : x <= y

MaxOf(v) == IF v = <<>> THEN 0
            ELSE CHOOSE x \in Range(v) : \A y \in Range(v) : x >= y

StatisticsAreAggregates(e) ==
    /\ e.min_context_length = MinOf(LengthsIn(e, FALSE))
    /\ e.max_context_length = MaxOf(LengthsIn(e, FALSE))
    /\ e.num_degenerate_symbols =
          Cardinality({k \in 0..(e.n - 1) : At(e.symbol_sizes, k) >= 2})
    /\ e.num_empty_strings =
          Cardinality({g \in 0..(e.m - 1) : At(e.string_lengths, g) = 0})
    /\ e.num_common_chars = SumSeq(LengthsIn(e, FALSE))
    /\ e.total_change_size = SumSeq(LengthsIn(e, TRUE))

(* C20 as claimed: after any successful parse or merge the statistics are  *)
(* the aggregates of the symbol sequence: min and max context length over  *)
(* the non-degenerate symbols (0 when there is none), the number of        *)
(* symbols of size >= 2, the number of zero-length alternatives, the       *)
(* characters in non-degenerate symbols, and total_change_size the         *)
(* characters in degenerate symbols.                                       *)
C20_AsClaimed == \A e \in Instances : ~e.is_empty => StatisticsAreAggregates(e)

----------------------------------------------------------------------------
(* EDS::extract and EDS::generate_patterns *)

SampleMaxCard == 3

MaxCount == 2

MaxPatternLength == 2

(* the loop of extract over the symbols of the range (lines 804-822) *)
RECURSIVE extract_loop(_, _, _, _, _, _)
extract_loop(e, pos, changes, expected_changes, i, result) ==
    IF i >= expected_changes THEN Return(result)
    ELSE LET current_pos == pos + i
             change_idx == At(changes, i)
             set == At(e.sets, current_pos)
         IN IF change_idx < 0 \/ change_idx >= Len(set)
            THEN Throw("out_of_range", <<"Change index is out of range">>)
            ELSE extract_loop(e, pos, changes, expected_changes, i + 1,
                              result \o At(set, change_idx))

(* extract that refuses a range that passes the end of the EDS *)
extract_strict(e, pos, len, changes) ==
    IF e.mode = "METADATA_ONLY"
    THEN Throw("runtime_error", <<"extract() is only available in FULL mode">>)
    ELSE IF e.is_empty \/ e.n = 0
    THEN Throw("runtime_error", <<"Cannot extract from empty EDS">>)
    ELSE IF pos >= e.n \/ pos + len > e.n
    THEN Throw("out_of_range", <<"Start position exceeds EDS length">>)
    ELSE IF len = 0 THEN Return(<<>>)
    ELSE IF Len(changes) # len
    THEN Throw("invalid_argument", <<"changes vector size must match range length">>)
    ELSE extract_loop(e, pos, changes, len, 0, <<>>)

(* EDS::extract *)
extract(e, pos, len, changes) ==
    IF e.mode = "METADATA_ONLY"
    THEN Throw("runtime_error", <<"extract() is only available in FULL mode">>)
    ELSE IF e.is_empty \/ e.n = 0
    THEN Throw("runtime_error", <<"Cannot extract from empty EDS">>)
    ELSE IF pos >= e.n
    THEN Throw("out_of_range", <<"Start position exceeds EDS length">>)
    ELSE IF len = 0 THEN Return(<<>>)
    ELSE LET end_pos == Min2(pos + len, e.n)
             expected_changes == end_pos - pos
         IN IF Len(changes) # expected_changes
            THEN Throw("invalid_argument",
                       <<"changes vector size must match range length">>)
            ELSE extract_loop(e, pos, changes, expected_changes, 0, <<>>)

(* the position of the driver of the calls between two calls; pass is the  *)
(* parity of the passes of the wrap loop made for the current pattern      *)
SampleIdle(text, mode) ==
    [pc |-> "ready", text |-> text, mode |-> mode, i |-> 0, out |-> <<>>,
     pattern |-> <<>>, remaining_length |-> 0, current_pos |-> 0,
     first_symbol |-> FALSE, offset_in_symbol |-> 0, pass |-> 0]

(* the instances of the sampling level: the full form of the generated     *)
(* symbols in both storing modes                                           *)
InitSample ==
    \E symbols \in SymbolSeqs(Strings, SampleMaxCard), mode \in Modes :
        LET c == Construct(FullText(symbols), NoSources, mode) IN
        /\ c.ok
        /\ eds = c.eds
        /\ ret = NoRet
        /\ call = NoCall
        /\ drv = SampleIdle(FullText(symbols), mode)

(* a call eds.extract(pos, len, changes) *)
Extract(pos, len, changes) ==
    /\ drv.pc = "ready"
    /\ call.op = "none"
    /\ ret' = extract(eds, pos, len, changes)
    /\ call' = [op |-> "extract", pos1 |-> pos, pos2 |-> len, changes |-> changes]
    /\ UNCHANGED <<eds, drv>>

(* a call eds.generate_patterns(os, count, pattern_length) up to the loop  *)
(* over the patterns (lines 673-691)                                       *)
GeneratePatterns(count, pattern_length) ==
    /\ drv.pc = "ready"
    /\ call.op = "none"
    /\ call' = [op |-> "generate_patterns", pos1 |-> count, pos2 |-> pattern_length]
    /\ IF eds.is_empty \/ eds.n = 0
       THEN /\ ret' = Throw("runtime_error", <<"Cannot generate patterns from empty EDS">>)
            /\ UNCHANGED drv
       ELSE IF pattern_length = 0
       THEN /\ ret' = Throw("invalid_argument", <<"Pattern length must be greater than 0">>)
            /\ UNCHANGED drv
       ELSE /\ drv' = [drv EXCEPT !.pc = "patterns"]
            /\ UNCHANGED ret
    /\ UNCHANGED eds

(* the head of the loop over the patterns: the random start of pattern i   *)
(* (lines 692-706), or the return of the call                              *)
PatternBegin ==
    /\ drv.pc = "patterns"
    /\ IF drv.i < call.pos1
       THEN /\ \E random_common_pos \in
                    0..(IF eds.num_common_chars > 0 THEN eds.num_common_chars - 1 ELSE 0) :
                  \E found \in (IF eds.num_common_chars > 0
                                THEN find_symbol_at_common_position(eds, random_common_pos)
                                ELSE {[ok |-> TRUE, symbol_idx |-> 0, offset |-> 0]}) :
                     IF found.ok
                     THEN /\ drv' = [drv EXCEPT !.pc = "walk", !.pattern = <<>>,
                                        !.remaining_length = call.pos2,
                                        !.current_pos = found.symbol_idx,
                                        !.first_symbol = TRUE,
                                        !.offset_in_symbol = found.offset]
                          /\ UNCHANGED ret
                     ELSE /\ drv' = SampleIdle(drv.text, drv.mode)
                          /\ ret' = found
       ELSE /\ ret' = Return(drv.out)
            /\ drv' = SampleIdle(drv.text, drv.mode)
    /\ UNCHANGED <<eds, call>>

(* one pass of the forward walk (lines 710-743), or its end *)
PatternWalk ==
    /\ drv.pc = "walk"
    /\ IF drv.remaining_length > 0 /\ drv.current_pos < eds.n
       THEN \E read \in {read_symbol(eds, drv.current_pos)} :
              IF ~read.ok
              THEN /\ ret' = read
                   /\ drv' = SampleIdle(drv.text, drv.mode)
              ELSE IF read.value = <<>>
              THEN /\ drv' = [drv EXCEPT !.current_pos = @ + 1, !.first_symbol = FALSE]
                   /\ UNCHANGED ret
              ELSE \E string_idx \in 0..(Len(read.value) - 1) :
                     LET selected == At(read.value, string_idx)
                         start_offset == IF drv.first_symbol THEN drv.offset_in_symbol ELSE 0
                         to_take == IF start_offset < Len(selected)
                                    THEN Min2(drv.remaining_length, Len(selected) - start_offset)
                                    ELSE 0
                         remaining_length == drv.remaining_length - to_take
                     IN /\ drv' = [drv EXCEPT
                                     !.pattern = @ \o SubSeq(selected, start_offset + 1,
                                                             start_offset + to_take),
                                     !.remaining_length = remaining_length,
                                     !.first_symbol = FALSE,
                                     !.current_pos = IF remaining_length > 0 THEN @ + 1 ELSE @]
                        /\ UNCHANGED ret
       ELSE /\ drv' = [drv EXCEPT !.pc = "wrap"]
            /\ UNCHANGED ret
    /\ UNCHANGED <<eds, call>>

(* one pass of the wrap loop (lines 746-764), or the output of the         *)
(* pattern (line 767)                                                      *)
PatternWrap ==
    /\ drv.pc = "wrap"
    /\ IF Len(drv.pattern) < call.pos2 /\ eds.n > 0
       THEN \E read \in {read_symbol(eds, Len(drv.pattern) % eds.n)} :
              IF ~read.ok
              THEN /\ ret' = read
                   /\ drv' = SampleIdle(drv.text, drv.mode)
              ELSE IF read.value = <<>>
              THEN /\ drv' = [drv EXCEPT !.pass = 1 - @]
                   /\ UNCHANGED ret
              ELSE \E string_idx \in 0..(Len(read.value) - 1) :
                     LET selected == At(read.value, string_idx)
                         to_take == Min2(call.pos2 - Len(drv.pattern), Len(selected))
                     IN /\ drv' = [drv EXCEPT !.pattern = @ \o SubSeq(selected, 1, to_take),
                                              !.pass = 1 - @]
                        /\ UNCHANGED ret
       ELSE /\ drv' = [drv EXCEPT !.pc = "patterns", !.i = @ + 1, !.pass = 0,
                                  !.out = Append(@, drv.pattern)]
            /\ UNCHANGED ret
    /\ UNCHANGED <<eds, call>>

(* the choice vectors of the calls of extract *)
ChangeVectors == SeqsUpTo(-1..2, 2) \cup [1..3 -> {0, 1}]

NextSample ==
    \/ \E pos \in 0..SampleMaxCard, len \in 0..(SampleMaxCard + 1) :
         \E changes \in ChangeVectors : Extract(pos, len, changes)
    \/ \E count \in 0..MaxCount, pattern_length \in 0..MaxPatternLength :
         GeneratePatterns(count, pattern_length)
    \/ PatternBegin
    \/ PatternWalk
    \/ PatternWrap

SpecSample == InitSample /\ [][NextSample]_vars

(* the loops of generate_patterns are run to their end *)
SpecSampleFair ==
    SpecSample /\ WF_vars(PatternBegin) /\ WF_vars(PatternWalk) /\ WF_vars(PatternWrap)

----------------------------------------------------------------------------
(* Properties of the sampling level *)

ExtractCalled == drv.pc = "ready" /\ call.op = "extract"

(* the concatenation of the alternatives changes[k] of the symbols pos + k, *)
(* k in [0, count)                                                         *)
Chosen(e, pos, changes, count) ==
    Flatten([k \in 1..count |-> At(At(e.sets, pos + k - 1), changes[k])])

ValidChoices(e, pos, changes, count) ==
    /\ Len(changes) = count
    /\ \A k \in 1..count :
          changes[k] >= 0 /\ changes[k] < At(e.symbol_sizes, pos + k - 1)

(* C21 as claimed: on a full-mode instance extract(pos, len, changes)      *)
(* returns the concatenation of the alternatives changes[k] of the symbols *)
(* pos+k, k in [0,len), and fails with an error whenever pos >= n, pos+len *)
(* exceeds n, the length of changes differs from len, or some changes[k]   *)
(* is not an alternative index of symbol pos+k.                            *)
C21_AsClaimed ==
    (ExtractCalled /\ eds.mode = "FULL") =>
        IF call.pos1 < eds.n /\ call.pos1 + call.pos2 <= eds.n
           /\ ValidChoices(eds, call.pos1, call.changes, call.pos2)
        THEN Returns(Chosen(eds, call.pos1, call.changes, call.pos2))
        ELSE ~ret.ok

(* C21: on a full-mode instance extract(pos, len, changes) with pos < n    *)
(* works on the range cut at the end of the EDS, of span = min(pos+len, n) *)
(* - pos symbols: it returns the empty string when len = 0, the            *)
(* concatenation of the alternatives changes[k] of the symbols pos+k, k in *)
(* [0,span), when changes has span valid entries, and fails otherwise; it  *)
(* fails when pos >= n.                                                    *)
C21_Extract ==
    (ExtractCalled /\ eds.mode = "FULL") =>
        LET span == Min2(call.pos1 + call.pos2, eds.n) - call.pos1 IN
        IF call.pos1 >= eds.n THEN Raises
        ELSE IF call.pos2 = 0 THEN Returns(<<>>)
        ELSE IF ValidChoices(eds, call.pos1, call.changes, span)
        THEN Returns(Chosen(eds, call.pos1, call.changes, span))
        ELSE Raises

(* a call whose range passes the end of the EDS has returned a string *)
C21_Witness ==
    /\ ExtractCalled /\ eds.mode = "FULL"
    /\ call.pos1 + call.pos2 > eds.n
    /\ ret.ok /\ ret.value # <<>>

(* a call of generate_patterns on a non-empty EDS with a length >= 1 is in *)
(* its loops                                                               *)
GenerateRunning == drv.pc \in {"patterns", "walk", "wrap"}

(* the call has returned count strings of pattern_length characters *)
GenerateDone ==
    /\ drv.pc = "ready" /\ call.op = "generate_patterns"
    /\ ret.ok
    /\ Len(ret.value) = call.pos1
    /\ \A k \in 1..Len(ret.value) : Len(ret.value[k]) = call.pos2

(* C22 as claimed: for every non-empty EDS, a symbol of which may have     *)
(* only empty alternatives, every count k and every length l >= 1,         *)
(* generate_patterns(k, l) terminates and outputs exactly k strings of     *)
(* length exactly l, whatever random choices are made.                     *)
C22_AsClaimed == GenerateRunning ~> GenerateDone

(* pattern is an occurrence in e: check_position returns true for some     *)
(* common position and some vector of absolute degenerate string ids       *)
Occurs(e, pattern) ==
    \E p \in 0..e.num_common_chars :
      \E d \in SeqsUpTo(0..(e.m - 1), e.num_degenerate_symbols) :
         Return(TRUE) \in check_position(e, p, d, pattern)

(* C23 as claimed: every pattern output by generate_patterns is an         *)
(* occurrence in the EDS, there are a common position p and a vector d of  *)
(* absolute degenerate string ids for which check_position(p, d, pattern)  *)
(* returns true, also when the forward walk reaches the last symbol before *)
(* l characters are produced.                                              *)
C23_AsClaimed ==
    drv.pc = "patterns" => \A k \in 1..Len(drv.out) : Occurs(eds, drv.out[k])

----------------------------------------------------------------------------
(* Properties of the waves of the drivers *)

(* the driver is at the head of its loop on an instance *)
AtLoop == drv.pc = "loop" /\ drv.context_length >= 1

(* the metadata of an instance alone: no strings, no sources *)
MetadataOf(e) ==
    [e EXCEPT !.sets = <<>>, !.sources = <<>>, !.has_sources = FALSE, !.file = <<>>]

(* pairs (i, i+1) in increasing i, no position in two of them, each        *)
(* admissible for the floor L                                              *)
IndependentPairs(e, L, pairs) ==
    /\ \A k \in 1..Len(pairs) :
          /\ pairs[k].pos1 >= 0
          /\ pairs[k].pos2 = pairs[k].pos1 + 1
          /\ pairs[k].pos2 < e.n
          /\ Admissible(e, pairs[k].pos1, L)
    /\ \A k \in 1..(Len(pairs) - 1) : pairs[k].pos2 < pairs[k + 1].pos1

(* C24: for every EDS and floor L >= 1 select_independent_merge_pairs      *)
(* returns pairs (i, i+1) in increasing i, no position in two pairs, every *)
(* pair admissible (i or i+1 an internal non-degenerate symbol shorter     *)
(* than L, or both symbols degenerate), and the list is the one the        *)
(* metadata and L alone give.                                              *)
C24_Selection ==
    AtLoop =>
        /\ IndependentPairs(eds, drv.context_length,
                            select_independent_merge_pairs(eds, drv.context_length))
        /\ select_independent_merge_pairs(eds, drv.context_length)
              = select_independent_merge_pairs(MetadataOf(eds), drv.context_length)

(* the selection leaves out an admissible pair that shares a position with *)
(* a pair taken before it                                                  *)
C24_Witness ==
    /\ AtLoop
    /\ \E i \in 0..(eds.n - 3) :
          /\ Admissible(eds, i, drv.context_length)
          /\ Admissible(eds, i + 1, drv.context_length)
          /\ \E k \in 1..Len(select_independent_merge_pairs(eds, drv.context_length)) :
                select_independent_merge_pairs(eds, drv.context_length)[k].pos1 = i

(* merge_adjacent applied to the pairs one after another, from the         *)
(* rightmost pair pairs[k-1] down to the leftmost pairs[0]                 *)
RECURSIVE SequentialMerges(_, _, _)
SequentialMerges(e, pairs, k) ==
    IF k = 0 THEN [ok |-> TRUE, eds |-> e]
    ELSE LET merged == merge_adjacent(e, At(pairs, k - 1).pos1, At(pairs, k - 1).pos2)
         IN IF ~merged.ok THEN merged
            ELSE SequentialMerges(merged.eds, pairs, k - 1)

(* the symbols with their alternatives in order, the source sets, n, m, N *)
Content(e) ==
    [sets |-> e.sets, has_sources |-> e.has_sources, sources |-> e.sources,
     n |-> e.n, m |-> e.m, N |-> e.N]

(* the wave of the selected pairs on the instance at the loop head *)
WavePairs == select_independent_merge_pairs(eds, drv.context_length)

WaveResults == merge_multiple_pairs(eds, WavePairs, 0, <<>>)

WaveSelected == AtLoop /\ WavePairs # <<>>

(* C25: the instance reconstruct_eds builds from the results of a wave is  *)
(* the instance that merge_adjacent gives when the same pairs are merged   *)
(* one after another from the rightmost to the leftmost: same symbols,     *)
(* alternatives in the same order, same source sets, same n, m and N; and  *)
(* the wave fails exactly when the sequence of merges fails.               *)
C25_WaveIsSequential ==
    WaveSelected =>
        LET seq == SequentialMerges(eds, WavePairs, Len(WavePairs)) IN
        IF ~WaveResults.ok THEN ~seq.ok
        ELSE LET rebuilt == reconstruct_eds(eds, WaveResults.results) IN
             /\ seq.ok
             /\ rebuilt.ok
             /\ Content(rebuilt.eds) = Content(seq.eds)

(* a wave of at least two pairs on an instance with sources *)
C25_Witness ==
    /\ WaveSelected
    /\ Len(WavePairs) >= 2
    /\ eds.has_sources
    /\ WaveResults.ok

----------------------------------------------------------------------------
(* merge_multiple_pairs with its workers: one call on a loaded instance    *)
(* and the pairs selected on it, a step per statement of a loop pass       *)

(* number of threads given to the drivers *)
MaxThreads == 2

(* a slot of the result vector before any worker has written it *)
EmptyResult ==
    [original_pos1 |-> 0, original_pos2 |-> 0, merged_set |-> <<>>,
     merged_sources |-> <<>>]

IdleWorker == [iter |-> -1, step |-> "idle", merged |-> NoInstance]

(* a slot that every pass appends behind the slots completed so far *)
slot_appended(i, completed) == completed

(* results[i]: the slot of pass i (lines 157-168) *)
slot(i, completed) == i

(* the instances the first wave of a driver works on *)
WaveInputs ==
    {in \in DriverInputs :
        /\ in.context_length >= MaxL
        /\ linear_load(in.input, in.phasing_input).ok}

(* line 125: std::vector<MergeResult> results(pairs.size()) *)
InitWave ==
    \E in \in WaveInputs : \E num_threads \in 1..MaxThreads :
        LET e == linear_load(in.input, in.phasing_input).eds
            pairs == select_independent_merge_pairs(e, in.context_length)
        IN
        /\ eds = e
        /\ call = [op |-> "merge_multiple_pairs", pos1 |-> num_threads, pos2 |-> 0]
        /\ ret = NoRet
        /\ drv = [pc |-> "wave",
                  pairs |-> pairs,
                  num_threads |-> num_threads,
                  results |-> [i \in 1..Len(pairs) |-> EmptyResult],
                  taken |-> {},
                  completed |-> 0,
                  writes |-> {},
                  workers |-> [t \in 1..num_threads |-> IdleWorker]]

Parallel == drv.num_threads > 1 /\ drv.pairs # <<>>

(* lines 127-148: the sequential loop *)
WaveSequential ==
    /\ drv.pc = "wave"
    /\ ~Parallel
    /\ \E r \in {merge_multiple_pairs(eds, drv.pairs, 0, <<>>)} :
          IF ~r.ok
          THEN /\ ret' = Throw(r.error, r.what)
               /\ drv' = [drv EXCEPT !.pc = "error"]
          ELSE /\ ret' = Return(r.results)
               /\ drv' = [drv EXCEPT !.pc = "joined", !.results = r.results,
                                     !.completed = Len(drv.pairs)]
    /\ UNCHANGED <<eds, call>>

(* lines 152-155: a thread of the team gets a pass of the loop and merges  *)
(* the pair on the shared instance into its own local instance; an         *)
(* exception that leaves the parallel region ends the program              *)
WorkerMerge(t) ==
    /\ drv.pc = "wave"
    /\ Parallel
    /\ drv.workers[t].step = "idle"
    /\ \E i \in (0..(Len(drv.pairs) - 1)) \ drv.taken :
          \E merged \in {merge_adjacent(eds, At(drv.pairs, i).pos1, At(drv.pairs, i).pos2)} :
             IF ~merged.ok
             THEN /\ ret' = [ok |-> FALSE, error |-> "terminate", what |-> merged.what]
                  /\ drv' = [drv EXCEPT !.pc = "terminated"]
             ELSE /\ drv' = [drv EXCEPT
                               !.taken = @ \cup {i},
                               !.workers[t] = [iter |-> i, step |-> "positions",
                                               merged |-> merged.eds]]
                  /\ UNCHANGED ret
    /\ UNCHANGED <<eds, call>>

(* lines 157-158 *)
WorkerPositions(t) ==
    /\ drv.pc = "wave"
    /\ drv.workers[t].step = "positions"
    /\ LET i == drv.workers[t].iter
           k == slot(i, drv.completed) + 1
       IN drv' = [drv EXCEPT
                    !.results[k].original_pos1 = At(drv.pairs, i).pos1,
                    !.results[k].original_pos2 = At(drv.pairs, i).pos2,
                    !.writes = @ \cup {[worker |-> t, slot |-> k - 1]},
                    !.workers[t].step = "merged_set"]
    /\ UNCHANGED <<eds, ret, call>>

(* line 159 *)
WorkerSet(t) ==
    /\ drv.pc = "wave"
    /\ drv.workers[t].step = "merged_set"
    /\ LET i == drv.workers[t].iter
           k == slot(i, drv.completed) + 1
           merged_set == read_symbol(drv.workers[t].merged, At(drv.pairs, i).pos1)
       IN drv' = [drv EXCEPT
                    !.results[k].merged_set = merged_set.value,
                    !.writes = @ \cup {[worker |-> t, slot |-> k - 1]},
                    !.workers[t].step = "merged_sources"]
    /\ UNCHANGED <<eds, ret, call>>

(* lines 162-170, and the end of the pass *)
WorkerSources(t) ==
    /\ drv.pc = "wave"
    /\ drv.workers[t].step = "merged_sources"
    /\ LET i == drv.workers[t].iter
           k == slot(i, drv.completed) + 1
           merged == drv.workers[t].merged
           merged_size == At(merged.symbol_sizes, At(drv.pairs, i).pos1)
           global_idx == At(merged.cum_set_sizes, At(drv.pairs, i).pos1)
       IN drv' = [drv EXCEPT
                    !.results[k].merged_sources =
                        IF eds.has_sources
                        THEN [j \in 1..merged_size |-> At(merged.sources, global_idx + j - 1)]
                        ELSE @,
                    !.writes = IF eds.has_sources
                               THEN @ \cup {[worker |-> t, slot |-> k - 1]} ELSE @,
                    !.completed = @ + 1,
                    !.workers[t] = IdleWorker]
    /\ UNCHANGED <<eds, ret, call>>

(* the end of the parallel region and line 195 *)
WaveJoin ==
    /\ drv.pc = "wave"
    /\ Parallel
    /\ drv.completed = Len(drv.pairs)
    /\ drv' = [drv EXCEPT !.pc = "joined"]
    /\ ret' = Return(drv.results)
    /\ UNCHANGED <<eds, call>>

NextWave ==
    \/ WaveSequential
    \/ \E t \in 1..drv.num_threads : WorkerMerge(t)
    \/ \E t \in 1..drv.num_threads : WorkerPositions(t)
    \/ \E t \in 1..drv.num_threads : WorkerSet(t)
    \/ \E t \in 1..drv.num_threads : WorkerSources(t)
    \/ WaveJoin

SpecWave == InitWave /\ [][NextWave]_vars

(* C26: in a wave with more than one thread no two workers write the same  *)
(* slot of the result vector, and whatever the interleaving of the workers *)
(* the completed result vector is the one the sequential loop gives on the *)
(* same pairs.                                                             *)
C26_WorkersIndependent ==
    Parallel =>
        /\ \A w1 \in drv.writes : \A w2 \in drv.writes :
              w1.slot = w2.slot => w1.worker = w2.worker
        /\ drv.pc = "joined" =>
              /\ merge_multiple_pairs(eds, drv.pairs, 0, <<>>).ok
              /\ drv.results = merge_multiple_pairs(eds, drv.pairs, 0, <<>>).results

(* a completed wave in which both workers have written slots, the first   *)
(* worker a later slot than the second                                     *)
C26_Witness ==
    /\ Parallel
    /\ drv.pc = "joined"
    /\ \E w1 \in drv.writes : \E w2 \in drv.writes :
          w1.worker = 1 /\ w2.worker = 2 /\ w2.slot < w1.slot

----------------------------------------------------------------------------
(* The exits of the drivers' loops *)

----------------------------------------------------------------------------
(* An instance under calls of load_sources and merge_adjacent, the caller  *)
(* going on with the instance a merge returns                              *)

SourcesMaxCard == 2

(* the source texts given to an instance of cardinality m: well formed    *)
(* texts with m groups, with one group more and one group fewer, the empty *)
(* text, a text with an empty group and a text with a letter               *)
SourceTexts(m) ==
    {SourcesText(PatternSources(p, k)) :
        p \in SourcePatterns, k \in {m - 1, m, m + 1} \cap (1..(m + 1))}
    \cup {<<>>,
          <<SET_OPEN, "1", SET_CLOSE, SET_OPEN, SET_CLOSE>>,
          <<SET_OPEN, "1", SET_CLOSE, "A">>}

(* drv.before is the instance as it was when the last call was made *)
InitSources ==
    \E symbols \in SymbolSeqs(Strings, SourcesMaxCard) \ {<<>>} :
      \E seds \in SedsChoices(symbols) :
        LET c == Construct(FullText(symbols), seds, "FULL") IN
        /\ c.ok
        /\ eds = c.eds
        /\ ret = NoRet
        /\ call = NoCall
        /\ drv = [pc |-> "idle", before |-> c.eds]

(* eds.load_sources(seds_string) (lines 253-257): parse_sources works on   *)
(* the members of the instance, which keep what it wrote when it throws    *)
LoadSources(seds_string) ==
    /\ drv.pc = "idle"
    /\ \E r \in {parse_sources(eds, seds_string)} :
          /\ eds' = r.eds
          /\ ret' = IF r.ok THEN [ok |-> TRUE] ELSE Throw(r.error, r.what)
    /\ call' = [op |-> "load_sources", pos1 |-> 0, pos2 |-> 0]
    /\ drv' = [drv EXCEPT !.before = eds]

(* the source vector as merge_adjacent reads it: read past its end when it *)
(* holds fewer sets than the instance has alternatives                     *)
SourcesRead(e) ==
    IF e.has_sources /\ Len(e.sources) < e.m
    THEN {[e EXCEPT !.sources = @ \o [k \in 1..(e.m - Len(e.sources)) |-> s]] :
             s \in {{}, {1}}}
    ELSE {e}

(* eds = eds.merge_adjacent(pos1, pos1 + 1)                                *)
MergeInPlace(pos1) ==
    /\ drv.pc = "idle"
    /\ \E read \in SourcesRead(eds) :
         \E r \in {merge_adjacent(read, pos1, pos1 + 1)} \cup
                  (IF read = eds THEN {} ELSE {Fault}) :
          /\ eds' = IF r.ok THEN r.eds ELSE eds
          /\ ret' = IF r.ok THEN [ok |-> TRUE] ELSE Throw(r.error, r.what)
    /\ call' = [op |-> "merge_adjacent", pos1 |-> pos1, pos2 |-> pos1 + 1]
    /\ drv' = [drv EXCEPT !.before = eds]

NextSources ==
    \/ \E seds_string \in SourceTexts(eds.m) : LoadSources(seds_string)
    \/ \E pos1 \in 0..SourcesMaxCard :
          /\ pos1 < eds.n
          /\ MergeInPlace(pos1)

SpecSources == InitSources /\ [][NextSources]_vars

FailedLoad == call.op = "load_sources" /\ ~ret.ok

(* C28 as claimed: a load_sources that fails leaves the instance as it was *)
(* before the call, and after any sequence of successful and failed        *)
(* load_sources and merge_adjacent calls an instance that has sources      *)
(* holds exactly m source sets, none of them empty.                        *)
C28_AsClaimed ==
    /\ FailedLoad => eds = drv.before
    /\ eds.has_sources =>
          /\ Len(eds.sources) = eds.m
          /\ \A k \in 1..Len(eds.sources) : eds.sources[k] # {}

----------------------------------------------------------------------------
(* Three adjacent symbols merged into one by two calls of merge_adjacent,  *)
(* the left pair first or the right pair first (test_merge.cpp 81-98)      *)

MaxAlternatives == 2

OrderStrings == {<<"A">>, <<"C">>}

(* three symbols of at most MaxAlternatives alternatives, alone or behind  *)
(* a common symbol                                                         *)
OrderSymbols ==
    LET triples == [1..3 -> SeqsUpTo(OrderStrings, MaxAlternatives) \ {<<>>}] IN
    triples \cup {<< << <<"A">> >> >> \o t : t \in triples}

InitOrder ==
    \E symbols \in OrderSymbols : \E seds \in SedsChoices(symbols) :
        LET c == Construct(FullText(symbols), seds, "FULL") IN
        /\ c.ok
        /\ eds = c.eds
        /\ ret = NoRet
        /\ call = NoCall
        /\ drv = [pc |-> "start", input |-> c.eds, i |-> c.eds.n - 3, order |-> "none"]

(* EDS step1 = eds.merge_adjacent(i, i + 1) or eds.merge_adjacent(i + 1, i + 2) *)
MergeFirst(order) ==
    /\ drv.pc = "start"
    /\ LET pos1 == IF order = "left" THEN drv.i ELSE drv.i + 1 IN
       /\ call' = [op |-> "merge_adjacent", pos1 |-> pos1, pos2 |-> pos1 + 1]
       /\ \E r \in {merge_adjacent(eds, pos1, pos1 + 1)} :
             IF r.ok
             THEN /\ eds' = r.eds
                  /\ ret' = [ok |-> TRUE]
                  /\ drv' = [drv EXCEPT !.pc = "first", !.order = order]
             ELSE /\ eds' = eds
                  /\ ret' = Throw(r.error, r.what)
                  /\ drv' = [drv EXCEPT !.pc = "error", !.order = order]

(* EDS step2 = step1.merge_adjacent(i, i + 1) *)
MergeSecond ==
    /\ drv.pc = "first"
    /\ call' = [op |-> "merge_adjacent", pos1 |-> drv.i, pos2 |-> drv.i + 1]
    /\ \E r \in {merge_adjacent(eds, drv.i, drv.i + 1)} :
          IF r.ok
          THEN /\ eds' = r.eds
               /\ ret' = [ok |-> TRUE]
               /\ drv' = [drv EXCEPT !.pc = "done"]
          ELSE /\ eds' = eds
               /\ ret' = Throw(r.error, r.what)
               /\ drv' = [drv EXCEPT !.pc = "error"]

NextOrder ==
    \/ \E order \in {"left", "right"} : MergeFirst(order)
    \/ MergeSecond

SpecOrder == InitOrder /\ [][NextOrder]_vars

(* the two merges of the three symbols from position i of e, in an order *)
TwoMerges(e, i, order) ==
    LET step1 == merge_adjacent(e, IF order = "left" THEN i ELSE i + 1,
                                IF order = "left" THEN i + 1 ELSE i + 2)
    IN IF ~step1.ok THEN step1 ELSE merge_adjacent(step1.eds, i, i + 1)

OtherOrder == IF drv.order = "left" THEN "right" ELSE "left"

FailsEmpty(r) ==
    /\ ~r.ok
    /\ r.error = "runtime_error"
    /\ r.what = <<"results in empty set (no valid source intersections)">>

(* C29: merging three adjacent symbols into one gives the same instance    *)
(* whichever pair is merged first: the same alternatives in the same       *)
(* order, in linear mode the same source set for every alternative, and    *)
(* one order fails with the empty merged set error exactly when the other  *)
(* order does.                                                             *)
C29_OrderIndependent ==
    drv.pc \in {"done", "error"} =>
        LET other == TwoMerges(drv.input, drv.i, OtherOrder) IN
        /\ drv.pc = "error" <=> ~other.ok
        /\ drv.pc = "error" => FailsEmpty(ret) /\ FailsEmpty(other)
        /\ drv.pc = "done" => Content(eds) = Content(other.eds)

(* three symbols with sources, two of them degenerate, merged into one     *)
(* with fewer alternatives than the product                                *)
C29_Witness ==
    /\ drv.pc = "done"
    /\ drv.order = "right"
    /\ drv.input.has_sources
    /\ Cardinality({k \in 0..(drv.input.n - 1) : Degenerate(drv.input, k)}) >= 2
    /\ eds.m >= 2
    /\ eds.m < At(drv.input.symbol_sizes, drv.i) * At(drv.input.symbol_sizes, drv.i + 1)
               * At(drv.input.symbol_sizes, drv.i + 2)

----------------------------------------------------------------------------
(* The symbol indices the lookups of check_position read at *)

(* the index find_symbol_at_common_position reads the vectors at: the      *)
(* entry of cum_common_positions before the upper bound                    *)
SymbolIndexOf(e, common_pos) == upper_bound(e.cum_common_positions, common_pos, 0) - 1

(* C30 as claimed: for every common position and every degenerate id given *)
(* to check_position on a non-empty EDS, the positions at or beyond the    *)
(* last entry of cum_common_positions and the ids at or beyond the last    *)
(* entry of cum_degenerate_counts included, the lookups read the vectors   *)
(* of the metadata at symbol indices below n only: no call has the outcome *)
(* of a read outside their storage.                                        *)
C30_AsClaimed ==
    (/\ CheckPositionCalled
     /\ ~eds.is_empty
     /\ call.pattern # <<>>) =>
        /\ SymbolIndexOf(eds, call.pos1) < eds.n
        /\ ret # Fault
====
